---- MODULE Spec2Model ----
(***************************************************************************)
(* A model of the Fuchsia VFS connection layer: flag validation and rights *)
(* inheritance (directory/common.rs), the directory connection state       *)
(* machine (directory/connection/io1.rs and its mutable extension), the    *)
(* file connection state machine (file/connection/io1.rs) and the lock     *)
(* ordering of SimpleFilesystem::rename (filesystem/simple.rs).            *)
(*                                                                         *)
(* A u32 flags word is modelled as the set of the positions of its set     *)
(* bits: a & b is a \cap b, a | b is a \cup b and a & !b is a \ b.         *)
(***************************************************************************)
EXTENDS Integers, Sequences, FiniteSets, TLC

VARIABLES
  cc,      \* harness of the pure flag functions: inputs, position, result
  rn,      \* SimpleFilesystem::rename calls: per thread, arguments and position
  lock,    \* per directory, the thread holding its mutex (0: free)
  entries, \* per directory, its name map: name -> entry (NoEntry: absent)
  conns,   \* per connection slot, the connection served on it
  sent,    \* number of things the environment did: messages, drops, shutdown
  last,    \* what the most recently completed handler did
  tokens,  \* token registry: the directories a token was minted for
  scope    \* execution scope: has a token registry, was shut down

vars == <<cc, rn, lock, entries, conns, sent, last, tokens, scope>>
flagVars == <<cc>>
renameVars == <<rn, lock, entries>>
connVars == <<conns, sent, last, tokens, scope>>
nonRenameVars == <<flagVars, connVars>>

(***************************************************************************)
(* fuchsia.io constants, as bit positions.                                 *)
(***************************************************************************)
OPEN_RIGHT_READABLE        == {0}    \* 0x0000_0001
OPEN_RIGHT_WRITABLE        == {1}    \* 0x0000_0002
OPEN_RIGHT_EXECUTABLE      == {3}    \* 0x0000_0008
OPEN_FLAG_CREATE           == {16}   \* 0x0001_0000
OPEN_FLAG_CREATE_IF_ABSENT == {17}   \* 0x0002_0000
OPEN_FLAG_TRUNCATE         == {18}   \* 0x0004_0000
OPEN_FLAG_DIRECTORY        == {19}   \* 0x0008_0000
OPEN_FLAG_APPEND           == {20}   \* 0x0010_0000
OPEN_FLAG_NO_REMOTE        == {21}   \* 0x0020_0000
OPEN_FLAG_NODE_REFERENCE   == {22}   \* 0x0040_0000
OPEN_FLAG_DESCRIBE         == {23}   \* 0x0080_0000
OPEN_FLAG_POSIX_DEPRECATED == {24}   \* 0x0100_0000
OPEN_FLAG_NOT_DIRECTORY    == {25}   \* 0x0200_0000
CLONE_FLAG_SAME_RIGHTS     == {26}   \* 0x0400_0000
OPEN_FLAG_POSIX_WRITABLE   == {27}   \* 0x0800_0000
OPEN_FLAG_POSIX_EXECUTABLE == {28}   \* 0x1000_0000

OPEN_FLAGS_ALLOWED_WITH_NODE_REFERENCE ==
  OPEN_FLAG_DIRECTORY \cup OPEN_FLAG_NOT_DIRECTORY
    \cup OPEN_FLAG_DESCRIBE \cup OPEN_FLAG_NODE_REFERENCE

MODE_TYPE_MASK      == {12, 13, 14, 15, 16, 17, 18, 19}   \* 0x000F_F000
MODE_TYPE_DIRECTORY == {14}                               \* 0x0000_4000
\* directory::common::POSIX_DIRECTORY_PROTECTION_ATTRIBUTES: S_IRUSR | S_IXUSR
POSIX_DIRECTORY_PROTECTION_ATTRIBUTES == {6, 8}           \* 0o500
MODE_TYPE_FILE      == {15}                               \* 0x0000_8000

\* The three rights of a connection (crate::common::FS_RIGHTS).
FS_RIGHTS ==
  OPEN_RIGHT_READABLE \cup OPEN_RIGHT_WRITABLE \cup OPEN_RIGHT_EXECUTABLE

POSIX_FLAGS ==
  OPEN_FLAG_POSIX_DEPRECATED \cup OPEN_FLAG_POSIX_WRITABLE
    \cup OPEN_FLAG_POSIX_EXECUTABLE

\* The harness of the flag functions when a specification does not use it.
CcIdle == [pc |-> "idle"]

Ok(v)       == [ok |-> TRUE, val |-> v]
Err(status) == [ok |-> FALSE, status |-> status]

\* No request: the value of a connection's in-flight slot between requests.
NoReq ==
  [kind |-> "none", flags |-> {}, mode |-> {}, path |-> "", origin |-> "Start", n |-> 0,
   dst |-> "", off |-> 0]

\* A connection slot no connection was created on yet.
NoConn ==
  [kind |-> "none", node |-> 0, flags |-> {}, state |-> "None", queue |-> <<>>,
   inflight |-> NoReq, seek |-> 0, parent |-> 0, peer |-> FALSE,
   open |-> FALSE, closes |-> 0]

\* What the last handler did: the connection and the request, the status it
\* answered and whether it returned an error, the slot of the connection it
\* created (0: none), what it sent on the new server end and the calls it
\* made to its collaborators.  Before the first handler: nothing.
NoLast ==
  [conn |-> 0, req |-> NoReq, resp |-> "NONE", err |-> FALSE, created |-> 0,
   onopen |-> "NONE", calls |-> <<>>, args |-> <<>>, ret |-> "NONE",
   got |-> <<>>]

\* The connections when a specification does not use them.
ConnIdle ==
  /\ conns = <<>>
  /\ sent = 0
  /\ last = NoLast
  /\ tokens = {}
  /\ scope = [registry |-> FALSE, shutdown |-> FALSE, constructor |-> FALSE]

(***************************************************************************)
(* crate::common::stricter_or_same_rights: the rights of flags are among   *)
(* the rights of parent_flags.                                             *)
(***************************************************************************)
stricter_or_same_rights(parent_flags, flags) ==
  (flags \cap FS_RIGHTS) \subseteq (parent_flags \cap FS_RIGHTS)

(***************************************************************************)
(* directory::common::new_connection_validate_flags                        *)
(***************************************************************************)
ncvf_allowed_flags ==
  OPEN_FLAG_NODE_REFERENCE \cup OPEN_FLAG_DESCRIBE \cup OPEN_FLAG_CREATE
    \cup OPEN_FLAG_CREATE_IF_ABSENT \cup OPEN_FLAG_DIRECTORY
    \cup OPEN_RIGHT_READABLE \cup OPEN_RIGHT_WRITABLE \cup OPEN_RIGHT_EXECUTABLE

ncvf_prohibited_flags == OPEN_FLAG_APPEND \cup OPEN_FLAG_TRUNCATE

\* A slip that flips OPEN_FLAG_DIRECTORY where the function clears it.
new_connection_validate_flags_flips_directory(flags0) ==
  LET f1 == IF flags0 \cap OPEN_FLAG_NODE_REFERENCE # {}
            THEN flags0 \cap OPEN_FLAGS_ALLOWED_WITH_NODE_REFERENCE
            ELSE flags0
      f2 == IF f1 \cap OPEN_FLAG_DIRECTORY # {}
            THEN f1 \ OPEN_FLAG_DIRECTORY
            ELSE f1 \cup OPEN_FLAG_DIRECTORY
      f3 == IF f2 \cap OPEN_FLAG_POSIX_DEPRECATED # {}
            THEN f2 \cup OPEN_FLAG_POSIX_WRITABLE \cup OPEN_FLAG_POSIX_EXECUTABLE
            ELSE f2
      f4 == IF f3 \cap (OPEN_FLAG_POSIX_DEPRECATED \cup OPEN_FLAG_POSIX_EXECUTABLE) # {}
            THEN f3 \cup OPEN_RIGHT_EXECUTABLE
            ELSE f3
      f5 == IF f4 \cap (OPEN_FLAG_POSIX_DEPRECATED \cup OPEN_FLAG_POSIX_WRITABLE) # {}
            THEN f4 \cup OPEN_RIGHT_WRITABLE
            ELSE f4
      f6 == f5 \ POSIX_FLAGS
  IN  IF f2 \cap OPEN_FLAG_NOT_DIRECTORY # {} THEN Err("NOT_FILE")
      ELSE IF f6 \cap ncvf_prohibited_flags # {} THEN Err("INVALID_ARGS")
      ELSE IF f6 \ ncvf_allowed_flags # {} THEN Err("NOT_SUPPORTED")
      ELSE Ok(f6)

\* A slip that looks for the prohibited flags before OPEN_FLAG_NOT_DIRECTORY.
new_connection_validate_flags_prohibited_first(flags0) ==
  LET f1 == IF flags0 \cap OPEN_FLAG_NODE_REFERENCE # {}
            THEN flags0 \cap OPEN_FLAGS_ALLOWED_WITH_NODE_REFERENCE
            ELSE flags0
      f2 == f1 \ OPEN_FLAG_DIRECTORY
      f3 == IF f2 \cap OPEN_FLAG_POSIX_DEPRECATED # {}
            THEN f2 \cup OPEN_FLAG_POSIX_WRITABLE \cup OPEN_FLAG_POSIX_EXECUTABLE
            ELSE f2
      f4 == IF f3 \cap (OPEN_FLAG_POSIX_DEPRECATED \cup OPEN_FLAG_POSIX_EXECUTABLE) # {}
            THEN f3 \cup OPEN_RIGHT_EXECUTABLE
            ELSE f3
      f5 == IF f4 \cap (OPEN_FLAG_POSIX_DEPRECATED \cup OPEN_FLAG_POSIX_WRITABLE) # {}
            THEN f4 \cup OPEN_RIGHT_WRITABLE
            ELSE f4
      f6 == f5 \ POSIX_FLAGS
  IN  IF f6 \cap ncvf_prohibited_flags # {} THEN Err("INVALID_ARGS")
      ELSE IF f2 \cap OPEN_FLAG_NOT_DIRECTORY # {} THEN Err("NOT_FILE")
      ELSE IF f6 \ ncvf_allowed_flags # {} THEN Err("NOT_SUPPORTED")
      ELSE Ok(f6)

\* A slip that does not strip the flags of a node reference.
new_connection_validate_flags_no_strip(flags0) ==
  LET f1 == flags0
      f2 == f1 \ OPEN_FLAG_DIRECTORY
      f3 == IF f2 \cap OPEN_FLAG_POSIX_DEPRECATED # {}
            THEN f2 \cup OPEN_FLAG_POSIX_WRITABLE \cup OPEN_FLAG_POSIX_EXECUTABLE
            ELSE f2
      f4 == IF f3 \cap (OPEN_FLAG_POSIX_DEPRECATED \cup OPEN_FLAG_POSIX_EXECUTABLE) # {}
            THEN f3 \cup OPEN_RIGHT_EXECUTABLE
            ELSE f3
      f5 == IF f4 \cap (OPEN_FLAG_POSIX_DEPRECATED \cup OPEN_FLAG_POSIX_WRITABLE) # {}
            THEN f4 \cup OPEN_RIGHT_WRITABLE
            ELSE f4
      f6 == f5 \ POSIX_FLAGS
  IN  IF f2 \cap OPEN_FLAG_NOT_DIRECTORY # {} THEN Err("NOT_FILE")
      ELSE IF f6 \cap ncvf_prohibited_flags # {} THEN Err("INVALID_ARGS")
      ELSE IF f6 \ ncvf_allowed_flags # {} THEN Err("NOT_SUPPORTED")
      ELSE Ok(f6)

\* A slip that drops the deprecated POSIX flag without expanding it.
new_connection_validate_flags_drops_deprecated(flags0) ==
  LET f1 == IF flags0 \cap OPEN_FLAG_NODE_REFERENCE # {}
            THEN flags0 \cap OPEN_FLAGS_ALLOWED_WITH_NODE_REFERENCE
            ELSE flags0
      f2 == f1 \ OPEN_FLAG_DIRECTORY
      f3 == f2 \ OPEN_FLAG_POSIX_DEPRECATED
      f4 == IF f3 \cap (OPEN_FLAG_POSIX_DEPRECATED \cup OPEN_FLAG_POSIX_EXECUTABLE) # {}
            THEN f3 \cup OPEN_RIGHT_EXECUTABLE
            ELSE f3
      f5 == IF f4 \cap (OPEN_FLAG_POSIX_DEPRECATED \cup OPEN_FLAG_POSIX_WRITABLE) # {}
            THEN f4 \cup OPEN_RIGHT_WRITABLE
            ELSE f4
      f6 == f5 \ POSIX_FLAGS
  IN  IF f2 \cap OPEN_FLAG_NOT_DIRECTORY # {} THEN Err("NOT_FILE")
      ELSE IF f6 \cap ncvf_prohibited_flags # {} THEN Err("INVALID_ARGS")
      ELSE IF f6 \ ncvf_allowed_flags # {} THEN Err("NOT_SUPPORTED")
      ELSE Ok(f6)

new_connection_validate_flags(flags0) ==
  LET f1 == IF flags0 \cap OPEN_FLAG_NODE_REFERENCE # {}
            THEN flags0 \cap OPEN_FLAGS_ALLOWED_WITH_NODE_REFERENCE
            ELSE flags0
      f2 == f1 \ OPEN_FLAG_DIRECTORY
      f3 == IF f2 \cap OPEN_FLAG_POSIX_DEPRECATED # {}
            THEN f2 \cup OPEN_FLAG_POSIX_WRITABLE \cup OPEN_FLAG_POSIX_EXECUTABLE
            ELSE f2
      f4 == IF f3 \cap (OPEN_FLAG_POSIX_DEPRECATED \cup OPEN_FLAG_POSIX_EXECUTABLE) # {}
            THEN f3 \cup OPEN_RIGHT_EXECUTABLE
            ELSE f3
      f5 == IF f4 \cap (OPEN_FLAG_POSIX_DEPRECATED \cup OPEN_FLAG_POSIX_WRITABLE) # {}
            THEN f4 \cup OPEN_RIGHT_WRITABLE
            ELSE f4
      f6 == f5 \ POSIX_FLAGS
  IN  IF f2 \cap OPEN_FLAG_NOT_DIRECTORY # {} THEN Err("NOT_FILE")
      ELSE IF f6 \cap ncvf_prohibited_flags # {} THEN Err("INVALID_ARGS")
      ELSE IF f6 \ ncvf_allowed_flags # {} THEN Err("NOT_SUPPORTED")
      ELSE Ok(f6)

(***************************************************************************)
(* directory::common::check_child_connection_flags                         *)
(***************************************************************************)
\* A slip that forgets the final rights comparison.
check_child_connection_flags_unchecked(parent_flags, flags0, mode0) ==
  Ok([flags |-> flags0 \ OPEN_FLAG_POSIX_DEPRECATED, mode |-> mode0])

\* A slip that lets the POSIX flags through whatever the parent's rights are.
check_child_connection_flags_keeps_posix(parent_flags, flags0, mode0) ==
  LET f1 == IF flags0 \cap OPEN_FLAG_POSIX_DEPRECATED # {}
            THEN (flags0 \cup OPEN_FLAG_POSIX_WRITABLE \cup OPEN_FLAG_POSIX_EXECUTABLE)
                   \ OPEN_FLAG_POSIX_DEPRECATED
            ELSE flags0
  IN  IF stricter_or_same_rights(parent_flags, f1)
      THEN Ok([flags |-> f1, mode |-> mode0])
      ELSE Err("ACCESS_DENIED")

\* A slip that lets CREATE through on a parent that is not writable.
check_child_connection_flags_create_unchecked(parent_flags, flags0, mode0) ==
  LET mode_type == mode0 \cap MODE_TYPE_MASK
      mode1 == IF mode_type = {} /\ flags0 \cap OPEN_FLAG_DIRECTORY # {}
               THEN mode0 \cup MODE_TYPE_DIRECTORY
               ELSE mode0
      f1 == IF flags0 \cap OPEN_FLAG_POSIX_DEPRECATED # {}
            THEN (flags0 \cup OPEN_FLAG_POSIX_WRITABLE \cup OPEN_FLAG_POSIX_EXECUTABLE)
                   \ OPEN_FLAG_POSIX_DEPRECATED
            ELSE flags0
      f2 == IF parent_flags \cap OPEN_RIGHT_EXECUTABLE = {}
            THEN f1 \ OPEN_FLAG_POSIX_EXECUTABLE
            ELSE f1
      f3 == IF parent_flags \cap OPEN_RIGHT_WRITABLE = {}
            THEN f2 \ OPEN_FLAG_POSIX_WRITABLE
            ELSE f2
  IN  IF /\ mode_type # {}
         /\ flags0 \cap OPEN_FLAG_DIRECTORY # {}
         /\ mode_type # MODE_TYPE_DIRECTORY
      THEN Err("INVALID_ARGS")
      ELSE IF /\ mode_type # {}
              /\ flags0 \cap OPEN_FLAG_NOT_DIRECTORY # {}
              /\ mode_type = MODE_TYPE_DIRECTORY
      THEN Err("INVALID_ARGS")
      ELSE IF (OPEN_FLAG_NOT_DIRECTORY \cup OPEN_FLAG_DIRECTORY) \subseteq flags0
      THEN Err("INVALID_ARGS")
      ELSE IF /\ flags0 \cap OPEN_FLAG_CREATE_IF_ABSENT # {}
              /\ flags0 \cap OPEN_FLAG_CREATE = {}
      THEN Err("INVALID_ARGS")
      ELSE IF flags0 \cap CLONE_FLAG_SAME_RIGHTS # {}
      THEN Err("INVALID_ARGS")
      ELSE IF stricter_or_same_rights(parent_flags, f3)
      THEN Ok([flags |-> f3, mode |-> mode1])
      ELSE Err("ACCESS_DENIED")

\* A slip that refuses a POSIX flag the parent has no right for.
check_child_connection_flags_posix_hard_fail(parent_flags, flags0, mode0) ==
  LET mode_type == mode0 \cap MODE_TYPE_MASK
      mode1 == IF mode_type = {} /\ flags0 \cap OPEN_FLAG_DIRECTORY # {}
               THEN mode0 \cup MODE_TYPE_DIRECTORY
               ELSE mode0
      f1 == IF flags0 \cap OPEN_FLAG_POSIX_DEPRECATED # {}
            THEN (flags0 \cup OPEN_FLAG_POSIX_WRITABLE \cup OPEN_FLAG_POSIX_EXECUTABLE)
                   \ OPEN_FLAG_POSIX_DEPRECATED
            ELSE flags0
      f2 == IF parent_flags \cap OPEN_RIGHT_EXECUTABLE = {}
            THEN f1 \ OPEN_FLAG_POSIX_EXECUTABLE
            ELSE f1
      f3 == IF parent_flags \cap OPEN_RIGHT_WRITABLE = {}
            THEN f2 \ OPEN_FLAG_POSIX_WRITABLE
            ELSE f2
  IN  IF /\ mode_type # {}
         /\ flags0 \cap OPEN_FLAG_DIRECTORY # {}
         /\ mode_type # MODE_TYPE_DIRECTORY
      THEN Err("INVALID_ARGS")
      ELSE IF /\ mode_type # {}
              /\ flags0 \cap OPEN_FLAG_NOT_DIRECTORY # {}
              /\ mode_type = MODE_TYPE_DIRECTORY
      THEN Err("INVALID_ARGS")
      ELSE IF (OPEN_FLAG_NOT_DIRECTORY \cup OPEN_FLAG_DIRECTORY) \subseteq flags0
      THEN Err("INVALID_ARGS")
      ELSE IF /\ flags0 \cap OPEN_FLAG_CREATE_IF_ABSENT # {}
              /\ flags0 \cap OPEN_FLAG_CREATE = {}
      THEN Err("INVALID_ARGS")
      ELSE IF flags0 \cap CLONE_FLAG_SAME_RIGHTS # {}
      THEN Err("INVALID_ARGS")
      ELSE IF /\ f3 \cap OPEN_FLAG_CREATE # {}
              /\ parent_flags \cap OPEN_RIGHT_WRITABLE = {}
      THEN Err("ACCESS_DENIED")
      ELSE IF f1 # f3
      THEN Err("ACCESS_DENIED")
      ELSE IF stricter_or_same_rights(parent_flags, f3)
      THEN Ok([flags |-> f3, mode |-> mode1])
      ELSE Err("ACCESS_DENIED")

check_child_connection_flags(parent_flags, flags0, mode0) ==
  LET mode_type == mode0 \cap MODE_TYPE_MASK
      mode1 == IF mode_type = {} /\ flags0 \cap OPEN_FLAG_DIRECTORY # {}
               THEN mode0 \cup MODE_TYPE_DIRECTORY
               ELSE mode0
      f1 == IF flags0 \cap OPEN_FLAG_POSIX_DEPRECATED # {}
            THEN (flags0 \cup OPEN_FLAG_POSIX_WRITABLE \cup OPEN_FLAG_POSIX_EXECUTABLE)
                   \ OPEN_FLAG_POSIX_DEPRECATED
            ELSE flags0
      f2 == IF parent_flags \cap OPEN_RIGHT_EXECUTABLE = {}
            THEN f1 \ OPEN_FLAG_POSIX_EXECUTABLE
            ELSE f1
      f3 == IF parent_flags \cap OPEN_RIGHT_WRITABLE = {}
            THEN f2 \ OPEN_FLAG_POSIX_WRITABLE
            ELSE f2
  IN  IF /\ mode_type # {}
         /\ flags0 \cap OPEN_FLAG_DIRECTORY # {}
         /\ mode_type # MODE_TYPE_DIRECTORY
      THEN Err("INVALID_ARGS")
      ELSE IF /\ mode_type # {}
              /\ flags0 \cap OPEN_FLAG_NOT_DIRECTORY # {}
              /\ mode_type = MODE_TYPE_DIRECTORY
      THEN Err("INVALID_ARGS")
      ELSE IF (OPEN_FLAG_NOT_DIRECTORY \cup OPEN_FLAG_DIRECTORY) \subseteq flags0
      THEN Err("INVALID_ARGS")
      ELSE IF /\ flags0 \cap OPEN_FLAG_CREATE_IF_ABSENT # {}
              /\ flags0 \cap OPEN_FLAG_CREATE = {}
      THEN Err("INVALID_ARGS")
      ELSE IF flags0 \cap CLONE_FLAG_SAME_RIGHTS # {}
      THEN Err("INVALID_ARGS")
      ELSE IF /\ f3 \cap OPEN_FLAG_CREATE # {}
              /\ parent_flags \cap OPEN_RIGHT_WRITABLE = {}
      THEN Err("ACCESS_DENIED")
      ELSE IF stricter_or_same_rights(parent_flags, f3)
      THEN Ok([flags |-> f3, mode |-> mode1])
      ELSE Err("ACCESS_DENIED")

(***************************************************************************)
(* SimpleFilesystem::rename (filesystem/simple.rs).  Each thread makes one *)
(* rename call; a directory's name map is guarded by the directory's own   *)
(* mutex, taken inside rename_from, rename_to, rename_within, link and     *)
(* remove_entry_impl.                                                      *)
(***************************************************************************)
MaxRenames == 2

Threads == 1..MaxRenames
Dirs    == {1, 2, 3}
Foreign == 0            \* an object that is not a directory of type T
Names   == {"a", "b"}
NoEntry == "none"

\* Memory location of a directory object: distinct objects, distinct addresses.
DirAddress(d) == d

RnIdle == [pc |-> "idle"]

RenameIdle ==
  /\ rn = [t \in Threads |-> RnIdle]
  /\ lock = [d \in Dirs |-> 0]
  /\ entries = [d \in Dirs |-> [n \in Names |-> NoEntry]]

\* A slip that always locks the source directory first.
RenamePath_src_first(src_dir, dst_dir) ==
  IF src_dir = dst_dir THEN "rename_within" ELSE "rename_from"

\* A slip that compares the addresses the wrong way round.
RenamePath_reversed(src_dir, dst_dir) ==
  IF DirAddress(src_dir) > DirAddress(dst_dir) THEN "rename_from"
  ELSE IF DirAddress(src_dir) = DirAddress(dst_dir) THEN "rename_within"
  ELSE "rename_to"

\* Which helper rename calls, by the order of the two addresses.
RenamePath(src_dir, dst_dir) ==
  IF DirAddress(src_dir) < DirAddress(dst_dir) THEN "rename_from"
  ELSE IF DirAddress(src_dir) = DirAddress(dst_dir) THEN "rename_within"
  ELSE "rename_to"

\* The directory whose mutex the helper takes first, and the one taken inside it.
FirstDir(r)  == IF r.via = "rename_to" THEN r.dst_dir ELSE r.src_dir
SecondDir(r) == IF r.via = "rename_to" THEN r.src_dir ELSE r.dst_dir

\* rename has returned: its arguments are gone, its status is with the caller.
RnDone(r, status) ==
  [pc |-> "done", src_dir |-> Foreign, src |-> "a", dst_dir |-> Foreign,
   dst |-> "a", via |-> "none", carry |-> NoEntry, got |-> Ok(NoEntry),
   status |-> status]

\* rename is called: the downcasts, then the choice of the helper.
RenameCall(t, src_dir, src, dst_dir, dst) ==
  /\ rn[t].pc = "idle"
  /\ LET r == [pc |-> "want1", src_dir |-> src_dir, src |-> src,
               dst_dir |-> dst_dir, dst |-> dst, via |-> "none",
               carry |-> NoEntry, got |-> Ok(NoEntry), status |-> "NONE"]
     IN  rn' = [rn EXCEPT ![t] =
                 IF src_dir = Foreign \/ dst_dir = Foreign
                 THEN RnDone(r, "INVALID_ARGS")
                 ELSE [r EXCEPT !.via = RenamePath(src_dir, dst_dir)]]
  /\ UNCHANGED <<lock, entries, nonRenameVars>>

\* The helper takes its directory's mutex (the thread blocks while it is held).
AcquireFirst(t) ==
  /\ rn[t].pc = "want1"
  /\ lock[FirstDir(rn[t])] = 0
  /\ lock' = [lock EXCEPT ![FirstDir(rn[t])] = t]
  /\ rn' = [rn EXCEPT ![t].pc = "in1"]
  /\ UNCHANGED <<entries, nonRenameVars>>

\* Under the first mutex: rename_within moves the entry and returns;
\* rename_from looks the source entry up and hands it to its closure, which
\* calls dst_parent.link; rename_to calls its closure, which calls
\* src_parent.remove_entry_impl.
InFirst(t) ==
  /\ rn[t].pc = "in1"
  /\ LET r == rn[t]
         e == entries[r.src_dir][r.src]
     IN  CASE r.via = "rename_within" ->
                /\ lock' = [lock EXCEPT ![r.src_dir] = 0]
                /\ IF e = NoEntry
                   THEN /\ rn' = [rn EXCEPT ![t] = RnDone(r, "NOT_FOUND")]
                        /\ UNCHANGED entries
                   ELSE /\ rn' = [rn EXCEPT ![t] = RnDone(r, "OK")]
                        /\ entries' = [entries EXCEPT ![r.src_dir] =
                                         [[@ EXCEPT ![r.src] = NoEntry]
                                            EXCEPT ![r.dst] = e]]
           [] r.via = "rename_from" ->
                IF e = NoEntry
                THEN /\ lock' = [lock EXCEPT ![r.src_dir] = 0]
                     /\ rn' = [rn EXCEPT ![t] = RnDone(r, "NOT_FOUND")]
                     /\ UNCHANGED entries
                ELSE /\ rn' = [rn EXCEPT ![t].pc = "want2", ![t].carry = e]
                     /\ UNCHANGED <<lock, entries>>
           [] OTHER ->
                /\ rn' = [rn EXCEPT ![t].pc = "want2"]
                /\ UNCHANGED <<lock, entries>>
  /\ UNCHANGED nonRenameVars

\* link or remove_entry_impl, called under the first mutex, takes the mutex
\* of the other directory.
AcquireSecond(t) ==
  /\ rn[t].pc = "want2"
  /\ lock[SecondDir(rn[t])] = 0
  /\ lock' = [lock EXCEPT ![SecondDir(rn[t])] = t]
  /\ rn' = [rn EXCEPT ![t].pc = "in2"]
  /\ UNCHANGED <<entries, nonRenameVars>>

\* The statuses a directory's link refuses a name that is taken with.
LinkErrors == {"ALREADY_EXISTS"}

\* DirectlyMutable::link of the destination directory, as the closure of
\* rename_from sees it: the entry is put under the name, or, when the name
\* is taken and the directory does not overwrite, the link is refused with
\* a status of the directory's choice.
link(dir, name, entry) ==
  {Ok("()")} \cup {Err(status) : status \in IF entries[dir][name] # NoEntry
                                            THEN LinkErrors ELSE {}}

\* The statuses a directory's remove_entry_impl can fail with.
RemoveErrors == {"INVALID_ARGS"}

\* DirectlyMutable::remove_entry_impl of the source directory, as the
\* closure sees it: the entry it took out of the directory (NoEntry: there
\* was none under the name), or an error of the directory.
remove_entry_impl(dir, name) ==
  {Ok(entries[dir][name])} \cup {Err(status) : status \in RemoveErrors}

\* A closure that hands on whatever the removal gave, present or not.
remove_source_unchecked(removed) ==
  IF ~removed.ok THEN removed ELSE Ok(removed.val)

\* The closure rename gives to rename_to: an error of remove_entry_impl is
\* passed on as it is; otherwise the entry remove_entry_impl took out of
\* the source directory, or NOT_FOUND when there was none.
remove_source(removed) ==
  IF ~removed.ok THEN removed
  ELSE IF removed.val = NoEntry THEN Err("NOT_FOUND")
  ELSE Ok(removed.val)

\* Under both mutexes: the closure of rename_from calls dst_parent.link with
\* the source entry, the closure of rename_to calls
\* src_parent.remove_entry_impl.  The call returns with its result and the
\* inner mutex is released; the mutex taken first is still held.
InSecond(t) ==
  /\ rn[t].pc = "in2"
  /\ LET r == rn[t]
     IN  \E got \in IF r.via = "rename_from" THEN link(r.dst_dir, r.dst, r.carry)
                    ELSE remove_entry_impl(r.src_dir, r.src) :
           /\ lock' = [lock EXCEPT ![SecondDir(r)] = 0]
           /\ rn' = [rn EXCEPT ![t].pc = "back1", ![t].got = got]
           /\ entries' = IF ~got.ok THEN entries
                         ELSE IF r.via = "rename_from"
                         THEN [entries EXCEPT ![r.dst_dir][r.dst] = r.carry]
                         ELSE [entries EXCEPT ![r.src_dir][r.src] = NoEntry]
  /\ UNCHANGED nonRenameVars

\* Back under the first mutex alone, the closure returns to the helper:
\* rename_from returns the error of link, or takes the source entry out of
\* its directory; rename_to returns the error of its closure, or puts the
\* entry the closure returned under the destination name.  The helper
\* returns and the first mutex is released.
BackInFirst(t) ==
  /\ rn[t].pc = "back1"
  /\ LET r == rn[t]
     IN  \E ret \in {IF r.via = "rename_from" THEN r.got ELSE remove_source(r.got)} :
           /\ lock' = [lock EXCEPT ![FirstDir(r)] = 0]
           /\ IF ~ret.ok
              THEN /\ rn' = [rn EXCEPT ![t] = RnDone(r, ret.status)]
                   /\ UNCHANGED entries
              ELSE /\ rn' = [rn EXCEPT ![t] = RnDone(r, "OK")]
                   /\ entries' = IF r.via = "rename_from"
                                 THEN [entries EXCEPT ![r.src_dir][r.src] = NoEntry]
                                 ELSE [entries EXCEPT ![r.dst_dir][r.dst] = ret.val]
  /\ UNCHANGED nonRenameVars

InitRename ==
  /\ cc = CcIdle
  /\ ConnIdle
  /\ rn = [t \in Threads |-> RnIdle]
  /\ lock = [d \in Dirs |-> 0]
  /\ entries = [d \in Dirs |-> [n \in Names |-> IF d = 3 THEN NoEntry
                                                 ELSE IF n = "a" THEN "e1"
                                                 ELSE NoEntry]]

\* Each thread calls rename once, moving a name to the other name, between
\* any two of the directories or with an object that is not a directory.
NextRename ==
  \E t \in Threads :
    \/ \E s \in Dirs \cup {Foreign}, d \in Dirs \cup {Foreign}, n \in Names, m \in Names :
         n # m /\ RenameCall(t, s, n, d, m)
    \/ AcquireFirst(t)
    \/ InFirst(t)
    \/ AcquireSecond(t)
    \/ InSecond(t)
    \/ BackInFirst(t)

SpecRename == InitRename /\ [][NextRename]_vars

Pending(t)  == rn[t].pc \in {"want1", "in1", "want2", "in2", "back1"}
Blocked(t)  ==
  \/ rn[t].pc = "want1" /\ lock[FirstDir(rn[t])] # 0
  \/ rn[t].pc = "want2" /\ lock[SecondDir(rn[t])] # 0
Held(t)     == {d \in Dirs : lock[d] = t}

\* C3: concurrent renames never deadlock: whenever renames are pending, at
\* least one of them is not blocked on a directory lock held by another.
C3_NoRenameDeadlock ==
  (\E t \in Threads : Pending(t)) => (\E t \in Threads : Pending(t) /\ ~Blocked(t))

\* Two renames in opposite directions are in flight, one holding the lower
\* directory while the other waits for it.
C3_Witness ==
  \E t, u \in Threads :
    /\ t # u
    /\ Pending(t) /\ Pending(u)
    /\ rn[t].src_dir = rn[u].dst_dir /\ rn[t].dst_dir = rn[u].src_dir
    /\ rn[t].src_dir # rn[t].dst_dir
    /\ rn[t].pc = "in2" /\ Blocked(u)

\* C4: a rename holds at most two directory locks; it asks for the lock of the
\* higher-ordered directory only while holding the lower-ordered one (source
\* first through rename_from when src orders before dst, destination first
\* through rename_to when dst orders before src); it takes a single lock
\* through rename_within when both are the same directory; the lock taken
\* second is released first, the rename then holding the lower-ordered lock
\* alone; and it holds no lock before it starts or after it has returned.
C4_RenameLockOrder ==
  \A t \in Threads :
    LET r == rn[t] IN
      /\ Cardinality(Held(t)) <= 2
      /\ r.pc \in {"idle", "done", "want1"} => Held(t) = {}
      /\ r.pc = "in1" => Held(t) = {FirstDir(r)}
      /\ r.pc = "want2" => Held(t) = {FirstDir(r)}
      /\ r.pc = "in2" => Held(t) = {FirstDir(r), SecondDir(r)}
      /\ r.pc = "back1" => Held(t) = {FirstDir(r)}
      /\ r.pc \in {"want2", "in2", "back1"} =>
           /\ r.src_dir # r.dst_dir
           /\ DirAddress(FirstDir(r)) < DirAddress(SecondDir(r))
      /\ Pending(t) =>
           /\ r.via = "rename_from" <=> DirAddress(r.src_dir) < DirAddress(r.dst_dir)
           /\ r.via = "rename_to" <=> DirAddress(r.dst_dir) < DirAddress(r.src_dir)
           /\ r.via = "rename_within" <=> r.src_dir = r.dst_dir

\* A rename whose destination orders first holds both locks, having taken the
\* destination's first.
C4_Witness ==
  \E t \in Threads :
    /\ rn[t].pc = "in2" /\ rn[t].via = "rename_to"
    /\ Held(t) = {rn[t].src_dir, rn[t].dst_dir}
    /\ DirAddress(rn[t].dst_dir) < DirAddress(rn[t].src_dir)

(***************************************************************************)
(* The harness of check_child_connection_flags: Init draws the arguments,  *)
(* CheckChild applies the function.                                        *)
(***************************************************************************)
CcParentFlags == SUBSET FS_RIGHTS

CcFlagBits ==
  FS_RIGHTS \cup POSIX_FLAGS \cup OPEN_FLAG_CREATE \cup OPEN_FLAG_CREATE_IF_ABSENT
    \cup OPEN_FLAG_DIRECTORY \cup OPEN_FLAG_NOT_DIRECTORY \cup CLONE_FLAG_SAME_RIGHTS

CcModes == {{}, MODE_TYPE_DIRECTORY, MODE_TYPE_FILE}

InitFlags ==
  /\ RenameIdle
  /\ ConnIdle
  /\ cc \in [pc : {"in"}, parent_flags : CcParentFlags, flags : SUBSET CcFlagBits,
          mode : CcModes, res : {Err("NONE")}]

CheckChild ==
  /\ cc.pc = "in"
  /\ UNCHANGED <<renameVars, connVars>>
  /\ cc' = [cc EXCEPT !.pc = "out",
                      !.res = check_child_connection_flags(
                                cc.parent_flags, cc.flags, cc.mode)]

NextFlags == CheckChild

SpecFlags == InitFlags /\ [][NextFlags]_vars

\* C1: whenever check_child_connection_flags returns Ok((f, m)), every right
\* bit of f (READABLE, WRITABLE, EXECUTABLE) is also set in parent_flags.
C1_ChildRightsWithinParent ==
  (cc.pc = "out" /\ cc.res.ok) =>
    (cc.res.val.flags \cap FS_RIGHTS) \subseteq cc.parent_flags

\* A successful call that asked for POSIX rights its parent lacks, and was
\* granted a right the parent has.
C1_Witness ==
  /\ cc.pc = "out" /\ cc.res.ok
  /\ cc.parent_flags = OPEN_RIGHT_READABLE
  /\ OPEN_FLAG_POSIX_WRITABLE \subseteq cc.flags
  /\ cc.res.val.flags \cap FS_RIGHTS = OPEN_RIGHT_READABLE

(***************************************************************************)
(* The harness of new_connection_validate_flags: Init draws the flags,     *)
(* Validate applies the function and Revalidate applies it to the flags a  *)
(* successful call returned.                                               *)
(***************************************************************************)
NcvfFlagBits ==
  FS_RIGHTS \cup POSIX_FLAGS \cup OPEN_FLAG_CREATE \cup OPEN_FLAG_CREATE_IF_ABSENT
    \cup OPEN_FLAG_TRUNCATE \cup OPEN_FLAG_DIRECTORY \cup OPEN_FLAG_APPEND
    \cup OPEN_FLAG_NO_REMOTE \cup OPEN_FLAG_NODE_REFERENCE \cup OPEN_FLAG_DESCRIBE
    \cup OPEN_FLAG_NOT_DIRECTORY \cup CLONE_FLAG_SAME_RIGHTS

InitValidate ==
  /\ RenameIdle
  /\ ConnIdle
  /\ cc \in [pc : {"in"}, flags : SUBSET NcvfFlagBits, res : {Err("NONE")},
            again : {Err("NONE")}]

Validate ==
  /\ cc.pc = "in"
  /\ UNCHANGED <<renameVars, connVars>>
  /\ cc' = [cc EXCEPT !.pc = "out", !.res = new_connection_validate_flags(cc.flags)]

Revalidate ==
  /\ cc.pc = "out" /\ cc.res.ok
  /\ UNCHANGED <<renameVars, connVars>>
  /\ cc' = [cc EXCEPT !.pc = "again",
                      !.again = new_connection_validate_flags(cc.res.val)]

NextValidate == Validate \/ Revalidate

SpecValidate == InitValidate /\ [][NextValidate]_vars

(***************************************************************************)
(* encode_dirent appends one record of a ReadDirents page to a buffer of   *)
(* bytes.  A name is a sequence of bytes; an inode is kept below 2^31 and   *)
(* laid out by write_u64 in little-endian order.                           *)
(***************************************************************************)
MAX_FILENAME == 255

RECURSIVE write_le(_, _)
\* byteorder's write_u64::<LittleEndian>: the width lowest bytes of n, lowest first
write_le(n, width) ==
  IF width = 0 THEN <<>> ELSE <<n % 256>> \o write_le(n \div 256, width - 1)

EncodeHeaderSize == 8 + 1 + 1

\* An encode_dirent that leaves the header out of the budget test.
encode_dirent_budget_without_header(buf, max_bytes, entry, name) ==
  IF Len(buf) + Len(name) > max_bytes THEN [ret |-> "false", buf |-> buf]
  ELSE IF ~(Len(name) <= MAX_FILENAME) THEN [ret |-> "panic", buf |-> buf]
  ELSE [ret |-> "true",
        buf |-> buf \o write_le(entry.inode, 8) \o <<Len(name) % 256>>
                    \o <<entry.type>> \o name]

\* directory::common::encode_dirent.  ret is "true" or "false" for a return
\* and "panic" for a failed assert!.
encode_dirent(buf, max_bytes, entry, name) ==
  IF Len(buf) + EncodeHeaderSize + Len(name) > max_bytes
  THEN [ret |-> "false", buf |-> buf]
  ELSE IF ~(Len(name) <= MAX_FILENAME) THEN [ret |-> "panic", buf |-> buf]
  ELSE [ret |-> "true",
        buf |-> buf \o write_le(entry.inode, 8) \o <<Len(name) % 256>>
                    \o <<entry.type>> \o name]

\* The harness: a page is filled by calls of encode_dirent, as a sink of
\* read_dirents does, until one of them panics.
MaxCalls == 3

EncodeBudgets == {0, 9, 10, 11, 24, 265, 266, 300, 540}

EncodeEntries == {[inode |-> 513, type |-> 4], [inode |-> 16909060, type |-> 8]}

NameOfLength(n) == [i \in 1..n |-> 97 + (i % 3)]

EncodeNames ==
  {NameOfLength(0), <<46>>, NameOfLength(3), NameOfLength(MAX_FILENAME),
   NameOfLength(MAX_FILENAME + 1), NameOfLength(MAX_FILENAME + 30)}

InitEncode ==
  /\ RenameIdle
  /\ ConnIdle
  /\ cc \in [buf : {<<>>}, max_bytes : EncodeBudgets, ret : {"none"}, calls : {0},
              prev : {<<>>}, entry : {[inode |-> 0, type |-> 0]}, name : {<<>>}]

EncodeDirent(entry, name) ==
  /\ cc.ret # "panic"
  /\ cc.calls < MaxCalls
  /\ UNCHANGED <<renameVars, connVars>>
  /\ \E out \in {encode_dirent(cc.buf, cc.max_bytes, entry, name)} :
       cc' = [cc EXCEPT !.buf = out.buf, !.ret = out.ret, !.prev = cc.buf,
                        !.calls = cc.calls + 1, !.entry = entry, !.name = name]

NextEncode == \E entry \in EncodeEntries : \E name \in EncodeNames : EncodeDirent(entry, name)

SpecEncode == InitEncode /\ [][NextEncode]_vars

(***************************************************************************)
(* Remote::open (remote.rs).  A path is the sequence of its remaining      *)
(* names; the result lists the calls of the routing function, the calls of *)
(* the node connection's create_connection and the status sent on the      *)
(* server end.                                                             *)
(***************************************************************************)
\* A Remote that keeps only NODE_REFERENCE away from the routing function.
remote_open_forwards_no_remote(scp, flags, mode, path, server_end) ==
  IF flags \cap OPEN_FLAG_NODE_REFERENCE # {}
  THEN IF path # <<>>
       THEN [routed |-> <<>>, node |-> <<>>, onopen |-> "BAD_PATH"]
       ELSE [routed |-> <<>>,
             node |-> <<[scope |-> scp, flags |-> flags, mode |-> mode,
                         server_end |-> server_end]>>,
             onopen |-> "NONE"]
  ELSE [routed |-> <<[scope |-> scp, flags |-> flags, mode |-> mode,
                      path |-> path, server_end |-> server_end]>>,
        node |-> <<>>, onopen |-> "NONE"]

\* <Remote as DirectoryEntry>::open, with open_as_node and open_as_remote
remote_open(scp, flags, mode, path, server_end) ==
  IF flags \cap OPEN_FLAG_NODE_REFERENCE # {} \/ flags \cap OPEN_FLAG_NO_REMOTE # {}
  THEN IF path # <<>>
       THEN [routed |-> <<>>, node |-> <<>>, onopen |-> "BAD_PATH"]
       ELSE LET flags1 == IF flags \cap OPEN_FLAG_NO_REMOTE # {}
                          THEN (flags \ OPEN_FLAG_NO_REMOTE) \cup OPEN_FLAG_NODE_REFERENCE
                          ELSE flags
            IN  [routed |-> <<>>,
                 node |-> <<[scope |-> scp, flags |-> flags1, mode |-> mode,
                             server_end |-> server_end]>>,
                 onopen |-> "NONE"]
  ELSE [routed |-> <<[scope |-> scp, flags |-> flags, mode |-> mode,
                      path |-> path, server_end |-> server_end]>>,
        node |-> <<>>, onopen |-> "NONE"]

RemoteFlagBits ==
  OPEN_RIGHT_READABLE \cup OPEN_RIGHT_WRITABLE \cup OPEN_FLAG_DESCRIBE
    \cup OPEN_FLAG_DIRECTORY \cup OPEN_FLAG_NODE_REFERENCE \cup OPEN_FLAG_NO_REMOTE

RemotePaths == {<<>>, <<"a">>, <<"a", "b">>}

NoRemoteOut == [routed |-> <<>>, node |-> <<>>, onopen |-> "NONE"]

InitRemote ==
  /\ RenameIdle
  /\ ConnIdle
  /\ cc \in [pc : {"in"}, scope : {1}, flags : SUBSET RemoteFlagBits,
              mode : {{}, MODE_TYPE_DIRECTORY}, path : RemotePaths,
              server_end : {1, 2}, out : {NoRemoteOut}]

RemoteOpen ==
  /\ cc.pc = "in"
  /\ UNCHANGED <<renameVars, connVars>>
  /\ cc' = [cc EXCEPT !.pc = "out",
                      !.out = remote_open(cc.scope, cc.flags, cc.mode, cc.path,
                                          cc.server_end)]

NextRemote == RemoteOpen

SpecRemote == InitRemote /\ [][NextRemote]_vars

(***************************************************************************)
(* FileConnection::handle_seek at the full width of its integers.  A       *)
(* number is written in limbs of 16 bits, lowest first: five limbs hold    *)
(* every sum of a u64 and an i64 that the i128 intermediate of handle_seek *)
(* can take, and a u64 is a number whose fifth limb is 0.                  *)
(***************************************************************************)
LimbBase == 65536

Wide(n) == <<n, 0, 0, 0, 0>>                       \* a number below 2^16
I64_MAX == <<65535, 65535, 65535, 32767, 0>>       \* 2^63 - 1
I64_MIN_MAGNITUDE == <<0, 0, 0, 32768, 0>>         \* 2^63

RECURSIVE AddLimbs(_, _, _)
AddLimbs(a, b, carry) ==
  IF a = <<>> THEN <<>>
  ELSE <<(Head(a) + Head(b) + carry) % LimbBase>>
         \o AddLimbs(Tail(a), Tail(b), (Head(a) + Head(b) + carry) \div LimbBase)

RECURSIVE SubLimbs(_, _, _)
\* a - b - borrow, for a not below b
SubLimbs(a, b, borrow) ==
  IF a = <<>> THEN <<>>
  ELSE IF Head(a) - Head(b) - borrow < 0
  THEN <<Head(a) - Head(b) - borrow + LimbBase>> \o SubLimbs(Tail(a), Tail(b), 1)
  ELSE <<Head(a) - Head(b) - borrow>> \o SubLimbs(Tail(a), Tail(b), 0)

LessLimbs(a, b) ==
  \E i \in DOMAIN a : a[i] < b[i] /\ \A j \in DOMAIN a : j > i => a[j] = b[j]

\* An i64 as an i128: a sign and a magnitude.
Signed(neg, mag) == [neg |-> neg, mag |-> mag]

\* base as i128 + offset as i128, for a base that is a u64
AddI128(base, offset) ==
  IF ~offset.neg THEN Signed(FALSE, AddLimbs(base, offset.mag, 0))
  ELSE IF LessLimbs(base, offset.mag) THEN Signed(TRUE, SubLimbs(offset.mag, base, 0))
  ELSE Signed(FALSE, SubLimbs(base, offset.mag, 0))

\* new_seek as u64: the low 64 bits of a non-negative i128
as_u64(mag) == [mag EXCEPT ![5] = 0]

\* FileConnection::handle_seek.  size is what the backing file's get_size
\* returned: a status and, with OK, a u64.
handle_seek_wide(node_reference, seek, offset, start, size) ==
  IF node_reference THEN [status |-> "BAD_HANDLE", seek |-> seek]
  ELSE LET r == CASE start = "Start"   -> [status |-> "OK", new_seek |-> offset]
                  [] start = "Current" -> [status |-> "OK", new_seek |-> AddI128(seek, offset)]
                  [] start = "End" ->
                       IF size.status = "OK"
                       THEN [status |-> "OK", new_seek |-> AddI128(size.val, offset)]
                       ELSE [status |-> size.status, new_seek |-> Signed(FALSE, seek)]
       IN  IF r.new_seek.neg /\ r.new_seek.mag # Wide(0)
           THEN [status |-> "OUT_OF_RANGE", seek |-> seek]
           ELSE [status |-> r.status, seek |-> as_u64(r.new_seek.mag)]

\* The harness: one connection, created with seek 0, that is sent Seeks.
MaxSeeks == 3

SeekOffsets ==
  {Signed(FALSE, I64_MAX), Signed(FALSE, Wide(2)), Signed(FALSE, Wide(0)),
   Signed(TRUE, Wide(1)), Signed(TRUE, I64_MIN_MAGNITUDE)}

SeekSizes ==
  {[status |-> "OK", val |-> Wide(256)], [status |-> "IO", val |-> Wide(0)]}

InitSeek ==
  /\ RenameIdle
  /\ ConnIdle
  /\ cc \in [node_reference : BOOLEAN, seek : {Wide(0)}, before : {Wide(0)},
              status : {"NONE"}, offset : {Signed(FALSE, Wide(0))}, start : {"Start"},
              size : {[status |-> "OK", val |-> Wide(0)]}, seeks : {0}]

Seek(offset, start, size) ==
  /\ cc.seeks < MaxSeeks
  /\ start # "End" => size = [status |-> "OK", val |-> Wide(256)]
  /\ UNCHANGED <<renameVars, connVars>>
  /\ \E out \in {handle_seek_wide(cc.node_reference, cc.seek, offset, start, size)} :
       cc' = [cc EXCEPT !.seek = out.seek, !.before = cc.seek, !.status = out.status,
                        !.offset = offset, !.start = start, !.size = size,
                        !.seeks = cc.seeks + 1]

NextSeek ==
  \E offset \in SeekOffsets : \E start \in {"Start", "Current", "End"} :
    \E size \in SeekSizes : Seek(offset, start, size)

SpecSeek == InitSeek /\ [][NextSeek]_vars

(***************************************************************************)
(* Connections.  A slot of conns holds one connection: the node it serves, *)
(* its flags, the state of its serving loop, the messages its client has   *)
(* written and the server has not read yet (queue), the request its        *)
(* handler is working on (inflight), its seek position, the connection     *)
(* that created it (parent, 0 for the first ones), whether the client      *)
(* still holds its end (peer), and for a file connection whether its       *)
(* OpenFile still holds the backing file (open) and how many times the     *)
(* backing file's close was invoked for it (closes).                       *)
(***************************************************************************)
MaxConns == 4
MaxSent  == 2
MaxQueue == 2

ConnIds  == 1..MaxConns
RootDir  == 1     \* a mutable directory with the entries "sub" and "file"
SubDir   == 2     \* the mutable directory RootDir has as "sub"
FileNode == 9     \* the file RootDir has as "file"
ImmDir   == 3     \* a directory served by connections that cannot modify it,
                  \* with the entry "file"
NoNode   == 0

\* The size of the file of the tests.
MOCK_FILE_SIZE == 256

\* What the collaborators answer during one handler or one start of a
\* connection: the status of the backing entry's first and second call
\* (NOT_SUPPORTED is what the file of the tests answers to get_buffer), the
\* number the backing file returns (the bytes it can transfer, or its size:
\* one byte or the size of the file of the tests), whether the responder's
\* send succeeds, the status of the token registry's lookup, what the
\* directory's read_dirents returned (a Done or another sealed result, the
\* cursor and the status a Done carries), the build, whether the watcher's
\* transport converts into a channel, whether the new connection's server
\* end converts into a request stream (stream) and takes the OnOpen event
\* (event), the status of the file's describe at the start of a connection,
\* what NewEntryType::from_flags_and_mode makes of a creation, and how many
\* of the file's futures called in one poll of a start answer at once
\* (ready).
Env ==
  [status : {"OK", "IO", "NOT_SUPPORTED"}, status2 : {"OK", "IO"},
   n : {1, MOCK_FILE_SIZE}, send : BOOLEAN,
   lookup : {"OK", "BAD_HANDLE"}, dirents : {"Done", "Other"}, pos : {1, 2},
   build : {"release", "debug"}, channel : BOOLEAN,
   done : {"OK", "BUFFER_TOO_SMALL"}, stream : BOOLEAN, event : BOOLEAN,
   describe : {"OK", "IO"}, new_type : {"OK", "INVALID_ARGS"}, ready : {0, 1, 2},
   unwind : BOOLEAN]

\* The requests of a file connection that have a twin of the older protocol.
ReadKindsOf    == {"Read", "ReadDeprecated"}
ReadAtKindsOf  == {"ReadAt", "ReadAtDeprecated"}
WriteKindsOf   == {"Write", "WriteDeprecated"}
WriteAtKindsOf == {"WriteAt", "WriteAtDeprecated"}
SeekKindsOf    == {"Seek", "SeekDeprecated"}
BufferKindsOf  == {"GetBuffer", "GetBackingMemory"}

\* The answers a request's handler can tell apart: a request without a
\* responder sends nothing and a send fails only once the client has dropped
\* its end, only the file's transfers and size queries get a number, only
\* Rename and Link look a token up, only ReadDirents reads the directory,
\* only a directory connection's Open and Clone make a connection within
\* the handler, only an Open with OPEN_FLAG_CREATE can make an entry, only
\* a handler that panics shows whether the build unwinds or aborts.
EnvOf(self, req) ==
  LET k        == req.kind
      arms     == ReadKindsOf \cup ReadAtKindsOf \cup WriteKindsOf \cup WriteAtKindsOf
                    \cup SeekKindsOf \cup BufferKindsOf
                    \cup {"Clone", "Close", "CloseDeprecated", "Truncate", "Resize",
                          "SetAttr", "GetAttr", "Sync", "SyncDeprecated", "Describe",
                          "GetFlags", "GetFlagsDeprecatedUseNode", "SetFlags",
                          "SetFlagsDeprecatedUseNode", "AdvisoryLock", "QueryFilesystem"}
      makes    == self.kind = "dir" /\ k \in {"Open", "Clone"}
      creates  == self.kind = "dir" /\ k = "Open" /\ req.flags \cap OPEN_FLAG_CREATE # {}
      numbered == \/ k \in ReadKindsOf \cup ReadAtKindsOf \cup WriteKindsOf \cup WriteAtKindsOf
                  \/ k \in SeekKindsOf /\ req.origin = "End"
  IN  {e \in [status   : IF k \in BufferKindsOf THEN {"OK", "IO", "NOT_SUPPORTED"}
                         ELSE IF k \in {"Open", "Clone"} /\ ~creates THEN {"OK"}
                         ELSE {"OK", "IO"},
              status2  : {"OK"},
              n        : IF numbered THEN {1, MOCK_FILE_SIZE} ELSE {1},
              send     : IF k \in {"Open", "Clone"} \/ self.peer THEN {TRUE} ELSE BOOLEAN,
              lookup   : IF k \in {"Rename", "Link"} THEN {"OK", "BAD_HANDLE"} ELSE {"OK"},
              dirents  : IF k = "ReadDirents" THEN {"Done", "Other"} ELSE {"Done"},
              pos      : IF k = "ReadDirents" THEN {1, 2} ELSE {1},
              build    : IF k = "ReadDirents" THEN {"release", "debug"} ELSE {"release"},
              channel  : IF k = "Watch" /\ req.n = 0 THEN BOOLEAN ELSE {TRUE},
              done     : IF k = "ReadDirents" THEN {"OK", "BUFFER_TOO_SMALL"} ELSE {"OK"},
              stream   : IF makes THEN BOOLEAN ELSE {TRUE},
              event    : IF makes /\ req.flags \cap OPEN_FLAG_DESCRIBE # {}
                         THEN BOOLEAN ELSE {TRUE},
              describe : {"OK"},
              new_type : IF creates THEN {"OK", "INVALID_ARGS"} ELSE {"OK"},
              ready    : {0},
              unwind   : IF k = "ReadDirents" \/ (self.kind = "file" /\ k \notin arms)
                         THEN BOOLEAN ELSE {TRUE}] :
         /\ e.status # "OK" => e.n = 1
         /\ e.lookup # "OK" => e.status = "OK"
         /\ e.status # "OK" => e.dirents = "Done"
         /\ (e.status # "OK" \/ e.dirents # "Done") => e.pos = 1 /\ e.done = "OK"
         /\ e.dirents = "Done" => e.build = "release"
         /\ (k = "Watch" /\ (req.n # 0 \/ ~e.channel)) => e.status = "OK"
         /\ (e.dirents # "Done" /\ e.build = "debug") => e.send
         /\ ~e.channel => e.send
         /\ ~e.stream => e.event
         /\ e.new_type # "OK" => e.status = "OK"
         /\ (k = "ReadDirents" /\ (e.dirents = "Done" \/ e.build # "debug")) => e.unwind}

Rights(flags) == flags \cap FS_RIGHTS

\* What the file of the tests supports: MockFile::open passes readable and
\* writable as true and executable as false.
FileReadable   == TRUE
FileWritable   == TRUE
FileExecutable == FALSE

(***************************************************************************)
(* common::inherit_rights_for_clone.  With CLONE_FLAG_SAME_RIGHTS the      *)
(* explicit rights are ignored and the parent's are copied; otherwise the  *)
(* explicit rights have to be within the parent's.  POSIX flags follow the *)
(* rights inheritance of Open: a POSIX flag the parent does not back is    *)
(* dropped.                                                                *)
(***************************************************************************)
inherit_rights_for_clone(parent_flags, flags0) ==
  LET f1 == IF flags0 \cap OPEN_FLAG_POSIX_DEPRECATED # {}
            THEN (flags0 \cup OPEN_FLAG_POSIX_WRITABLE \cup OPEN_FLAG_POSIX_EXECUTABLE)
                   \ OPEN_FLAG_POSIX_DEPRECATED
            ELSE flags0
      f2 == IF parent_flags \cap OPEN_RIGHT_EXECUTABLE = {}
            THEN f1 \ OPEN_FLAG_POSIX_EXECUTABLE
            ELSE f1
      f3 == IF parent_flags \cap OPEN_RIGHT_WRITABLE = {}
            THEN f2 \ OPEN_FLAG_POSIX_WRITABLE
            ELSE f2
  IN  IF f3 \cap CLONE_FLAG_SAME_RIGHTS # {}
      THEN Ok(((f3 \ CLONE_FLAG_SAME_RIGHTS) \ FS_RIGHTS) \cup Rights(parent_flags))
      ELSE IF stricter_or_same_rights(parent_flags, f3)
      THEN Ok(f3)
      ELSE Err("ACCESS_DENIED")

(***************************************************************************)
(* file::common::new_connection_validate_flags, as the file connection     *)
(* calls it: the node's capabilities bound the rights, the remaining POSIX *)
(* flags expand to the rights they stand for, a node reference keeps only  *)
(* the flags allowed with it.                                              *)
(***************************************************************************)
file_new_connection_validate_flags(flags0, readable, writable, executable, append_allowed) ==
  LET f1 == IF flags0 \cap OPEN_FLAG_NODE_REFERENCE # {}
            THEN flags0 \cap OPEN_FLAGS_ALLOWED_WITH_NODE_REFERENCE
            ELSE flags0
      f2 == IF f1 \cap OPEN_FLAG_POSIX_DEPRECATED # {}
            THEN f1 \cup OPEN_FLAG_POSIX_WRITABLE \cup OPEN_FLAG_POSIX_EXECUTABLE
            ELSE f1
      f3 == IF f2 \cap OPEN_FLAG_POSIX_WRITABLE # {}
            THEN f2 \cup OPEN_RIGHT_WRITABLE ELSE f2
      f4 == IF f3 \cap OPEN_FLAG_POSIX_EXECUTABLE # {}
            THEN f3 \cup OPEN_RIGHT_EXECUTABLE ELSE f3
      f5 == f4 \ POSIX_FLAGS
  IN  IF flags0 \cap OPEN_FLAG_DIRECTORY # {} THEN Err("NOT_DIR")
      ELSE IF f5 \cap OPEN_RIGHT_READABLE # {} /\ ~readable THEN Err("ACCESS_DENIED")
      ELSE IF f5 \cap OPEN_RIGHT_WRITABLE # {} /\ ~writable THEN Err("ACCESS_DENIED")
      ELSE IF f5 \cap OPEN_RIGHT_EXECUTABLE # {} /\ ~executable THEN Err("ACCESS_DENIED")
      ELSE IF f5 \cap OPEN_FLAG_APPEND # {} /\ ~append_allowed THEN Err("INVALID_ARGS")
      ELSE IF f5 \cap OPEN_FLAG_TRUNCATE # {} /\ f5 \cap OPEN_RIGHT_WRITABLE = {}
      THEN Err("INVALID_ARGS")
      ELSE Ok(f5)

(***************************************************************************)
(* path::Path::validate_and_split on the paths the clients use: the names  *)
(* of the path and whether it ends in a slash; "." and ".." segments are   *)
(* rejected.                                                               *)
(***************************************************************************)
validate_and_split(path) ==
  CASE path = "sub"    -> Ok([names |-> <<"sub">>, is_dir |-> FALSE])
    [] path = "sub/"   -> Ok([names |-> <<"sub">>, is_dir |-> TRUE])
    [] path = "file"   -> Ok([names |-> <<"file">>, is_dir |-> FALSE])
    [] path = "x"      -> Ok([names |-> <<"x">>, is_dir |-> FALSE])
    [] path = "sub/x"  -> Ok([names |-> <<"sub", "x">>, is_dir |-> FALSE])
    [] OTHER           -> Err("INVALID_ARGS")

\* The entry a directory has under a name (NoNode: none).
get_entry(node, name) ==
  IF node = RootDir /\ name = "sub" THEN SubDir
  ELSE IF node \in {RootDir, ImmDir} /\ name = "file" THEN FileNode
  ELSE NoNode

\* DerivedConnection::mutable, by the directory: the connections to ImmDir
\* are ImmutableConnections, the ones to the other directories
\* MutableConnections.
Immutable(node) == node = ImmDir

\* DirectoryEntry::can_hardlink: a file can be linked, a directory cannot.
can_hardlink(node) == node = FileNode

\* TokenRegistry::get_container: a failed lookup, no directory for a token
\* the registry did not mint (NoNode), or the directory of the token.
get_container(token, env) ==
  IF env.lookup # "OK" THEN Err(env.lookup)
  ELSE IF token \in tokens THEN Ok(token)
  ELSE Ok(NoNode)

(***************************************************************************)
(* Creating connections.  A creation yields the new connection, or none,   *)
(* what was sent on the new connection's server end (onopen: "NONE" when   *)
(* nothing was), and the calls made to the backing entry.                  *)
(***************************************************************************)
MadeR(conn, onopen, calls) ==
  [made |-> TRUE, conn |-> conn, onopen |-> onopen, calls |-> calls]
NotMadeR(onopen, calls) ==
  [made |-> FALSE, conn |-> NoConn, onopen |-> onopen, calls |-> calls]
NoCreate == NotMadeR("NONE", <<>>)

OnOpenOk(flags) == IF flags \cap OPEN_FLAG_DESCRIBE # {} THEN "OK" ELSE "NONE"

NewDirConn(node, flags, parent) ==
  [kind |-> "dir", node |-> node, flags |-> flags, state |-> "Alive",
   queue |-> <<>>, inflight |-> NoReq, seek |-> 0, parent |-> parent,
   peer |-> TRUE, open |-> FALSE, closes |-> 0]

\* A clone that starts where its parent is.
NewFileConn_parent_seek(flags, parent) ==
  [kind |-> "file", node |-> FileNode, flags |-> flags, state |-> "Alive",
   queue |-> <<>>, inflight |-> NoReq,
   seek |-> IF parent = 0 THEN 0 ELSE conns[parent].seek,
   parent |-> parent, peer |-> TRUE, open |-> TRUE, closes |-> 0]

NewFileConn(flags, parent) ==
  [kind |-> "file", node |-> FileNode, flags |-> flags, state |-> "Alive",
   queue |-> <<>>, inflight |-> NoReq, seek |-> 0, parent |-> parent,
   peer |-> TRUE, open |-> TRUE, closes |-> 0]

\* The task of a file connection that was spawned and has not run yet: it
\* holds the flags it was asked for and the server end, into which the
\* client may already write.
SpawnedFileConn(flags, parent) ==
  [kind |-> "file", node |-> FileNode, flags |-> flags, state |-> "Spawned",
   queue |-> <<>>, inflight |-> NoReq, seek |-> 0, parent |-> parent,
   peer |-> TRUE, open |-> FALSE, closes |-> 0]

\* MutableConnection::create_connection.  Nothing is sent when the server
\* end does not convert into a request stream, and no connection is made
\* when the OnOpen event cannot be sent.  A scope that was shut down does
\* not take the serving task: the connection object is dropped.
dir_create_connection(node, flags, mode, parent, env) ==
  LET v == new_connection_validate_flags(flags)
  IN  IF ~v.ok THEN NotMadeR(v.status, <<>>)
      ELSE IF ~env.stream THEN NotMadeR("NONE", <<>>)
      ELSE IF v.val \cap OPEN_FLAG_DESCRIBE # {} /\ ~env.event THEN NotMadeR("NONE", <<>>)
      ELSE IF scope.shutdown THEN NotMadeR(OnOpenOk(v.val), <<>>)
      ELSE MadeR(NewDirConn(node, v.val, parent), OnOpenOk(v.val), <<>>)

\* ImmutableConnection::create_connection.  The directory is wrapped into an
\* OpenDirectory first, which closes it when the creation fails; the serving
\* task is spawned with the scope's shutdown signal.
immutable_create_connection(node, flags, parent, env) ==
  LET v == new_connection_validate_flags(flags)
  IN  IF ~v.ok THEN NotMadeR(v.status, <<"close">>)
      ELSE IF ~env.stream THEN NotMadeR("NONE", <<"close">>)
      ELSE IF v.val \cap OPEN_FLAG_DESCRIBE # {} /\ ~env.event
      THEN NotMadeR("NONE", <<"close">>)
      ELSE IF scope.shutdown THEN NotMadeR(OnOpenOk(v.val), <<"close">>)
      ELSE MadeR([NewDirConn(node, v.val, parent) EXCEPT !.open = TRUE],
                 OnOpenOk(v.val), <<>>)

\* DerivedConnection::create_connection of the connection type the
\* directory is served by.
create_connection(node, flags, mode, parent, env) ==
  IF Immutable(node) THEN immutable_create_connection(node, flags, parent, env)
  ELSE dir_create_connection(node, flags, mode, parent, env)

\* FileConnection::create_connection: the task that will start the
\* connection is handed to the scope, which does not take it once it was
\* shut down; nothing runs of it within the caller.
file_create_connection(flags, parent) ==
  IF scope.shutdown THEN NotMadeR("NONE", <<>>)
  ELSE MadeR(SpawnedFileConn(flags, parent), "NONE", <<>>)

\* Where the task of a file connection can be before it serves: spawned and
\* not polled yet, waiting for File::open, waiting for the file's truncate.
Starting == {"Spawned", "Opening", "Truncating"}

\* What a poll of the task that starts a file connection yields: the
\* connection, whether it serves, the status of the step the poll ended
\* with (ret), what was sent on its server end and the calls made to the
\* file in this poll.  The FileConnection is made when the start has
\* succeeded, around the server end's request stream.
Started(self, flags, onopen, calls) ==
  [self |-> [NewFileConn(flags, self.parent) EXCEPT !.queue = self.queue,
                                                     !.peer = self.peer],
   made |-> TRUE, ret |-> "OK", onopen |-> onopen, calls |-> calls]

\* A start that fails: the OpenFile made first closes the file when it is
\* dropped.
NotStarted(self, ret, onopen, calls) ==
  [self |-> [self EXCEPT !.state = "Refused", !.open = FALSE, !.closes = @ + 1],
   made |-> FALSE, ret |-> ret, onopen |-> onopen, calls |-> calls \o <<"close">>]

\* A start that waits for the file: the task keeps its place, the validated
\* flags and the OpenFile, and other tasks run until the file has answered.
Suspended(self, at, calls) ==
  [self |-> [self EXCEPT !.state = at],
   made |-> FALSE, ret |-> "PENDING", onopen |-> "NONE", calls |-> calls]

\* create_connection_async after the truncate: with OPEN_FLAG_DESCRIBE the
\* file is asked to describe itself, the server end is converted into a
\* request stream and the OnOpen event is sent.  A failure of describe is
\* reported on the server end; a server end that does not convert and an
\* event that cannot be sent end the start without a report.
create_connection_async_serve(self, env, calls) ==
  LET flags     == self.flags
      described == IF flags \cap OPEN_FLAG_DESCRIBE # {} THEN <<"describe">> ELSE <<>>
  IN  IF flags \cap OPEN_FLAG_DESCRIBE # {} /\ env.describe # "OK"
      THEN NotStarted(self, env.describe, env.describe, calls \o described)
      ELSE IF ~env.stream
      THEN NotStarted(self, "OK", "NONE", calls \o described)
      ELSE IF flags \cap OPEN_FLAG_DESCRIBE # {} /\ ~env.event
      THEN NotStarted(self, "OK", "NONE", calls \o described)
      ELSE Started(self, flags, OnOpenOk(flags), calls \o described)

\* create_connection_async when file.truncate(0) has answered.
create_connection_async_truncated(self, env, calls) ==
  IF env.status2 # "OK" THEN NotStarted(self, env.status2, env.status2, calls)
  ELSE create_connection_async_serve(self, env, calls)

\* A start that serves the connection without truncating the file.
create_connection_async_opened_no_truncate(self, env, ready, calls) ==
  IF env.status # "OK" THEN NotStarted(self, env.status, env.status, calls)
  ELSE create_connection_async_serve(self, env, calls)

\* create_connection_async when File::open has answered: with
\* OPEN_FLAG_TRUNCATE in the validated flags the file's truncate is called,
\* and the task waits for it unless it answers at once (ready: how many of
\* the file's futures still answer at once in this poll).
create_connection_async_opened(self, env, ready, calls) ==
  IF env.status # "OK" THEN NotStarted(self, env.status, env.status, calls)
  ELSE IF self.flags \cap OPEN_FLAG_TRUNCATE # {}
  THEN IF ready = 0 THEN Suspended(self, "Truncating", calls \o <<"truncate">>)
       ELSE create_connection_async_truncated(self, env, calls \o <<"truncate">>)
  ELSE create_connection_async_serve(self, env, calls)

\* One poll of FileConnection::create_connection_async, from where the task
\* is to its next wait or to the serving loop.  The first poll wraps the
\* file into an OpenFile, validates the flags and calls File::open with the
\* validated flags; the task waits at File::open and at file.truncate(0)
\* for as long as the file's future is pending (env.ready: how many of the
\* file's futures called in this poll answer at once).  Every failure up to
\* the description is reported on the server end.
create_connection_async(self, env) ==
  LET v == file_new_connection_validate_flags(
             self.flags, FileReadable, FileWritable, FileExecutable, TRUE)
      k(opening) ==
        IF env.ready = 0 THEN Suspended(opening, "Opening", <<"open">>)
        ELSE create_connection_async_opened(opening, env, env.ready - 1, <<"open">>)
  IN  CASE self.state = "Spawned" ->
             IF ~v.ok THEN NotStarted(self, v.status, v.status, <<>>)
             ELSE k([self EXCEPT !.flags = v.val, !.open = TRUE])
        [] self.state = "Opening" ->
             create_connection_async_opened(self, env, env.ready, <<>>)
        [] OTHER ->
             create_connection_async_truncated(self, env, <<>>)

\* The entry an entry constructor makes.
NewEntry == 7

\* MutableConnection::entry_not_found: without OPEN_FLAG_CREATE the entry
\* is not found; otherwise the type of the new entry is worked out from the
\* flags, the mode and the path, and the scope's entry constructor, when it
\* has one, is asked to make the entry.  Yields what it returned (res) and
\* the call it made to the constructor, whether that made an entry or not.
entry_not_found(flags, mode, name, path, env) ==
  IF flags \cap OPEN_FLAG_CREATE = {} THEN [res |-> Err("NOT_FOUND"), calls |-> <<>>]
  ELSE IF env.new_type # "OK" THEN [res |-> Err(env.new_type), calls |-> <<>>]
  ELSE IF ~scope.constructor THEN [res |-> Err("NOT_SUPPORTED"), calls |-> <<>>]
  ELSE IF env.status # "OK" THEN [res |-> Err(env.status), calls |-> <<"create_entry">>]
  ELSE [res |-> Ok(NewEntry), calls |-> <<"create_entry">>]

\* ImmutableConnection::entry_not_found: nothing is made.
immutable_entry_not_found(flags) ==
  [res   |-> IF flags \cap OPEN_FLAG_CREATE = {} THEN Err("NOT_FOUND")
             ELSE Err("NOT_SUPPORTED"),
   calls |-> <<>>]

\* DirectoryEntry::open of a directory (directory/simple.rs) and of a file:
\* an empty path opens the node itself, a name is looked up and the rest of
\* the path is passed on to the entry found; an entry that was made for the
\* name is opened in turn, which is not followed here.
RECURSIVE entry_open(_, _, _, _, _, _, _)
entry_open(node, flags, mode, names, is_dir, parent, env) ==
  IF node = FileNode
  THEN IF names # <<>> THEN NotMadeR("NOT_DIR", <<>>)
       ELSE file_create_connection(flags, parent)
  ELSE IF names = <<>>
  THEN create_connection(node, flags, mode, parent, env)
  ELSE LET child == get_entry(node, Head(names))
           made  == IF Immutable(node) THEN immutable_entry_not_found(flags)
                    ELSE entry_not_found(flags, mode, Head(names),
                                         [names |-> Tail(names), is_dir |-> is_dir], env)
       IN  IF child # NoNode
           THEN entry_open(child, flags, mode, Tail(names), is_dir, parent, env)
           ELSE IF ~made.res.ok THEN NotMadeR(made.res.status, made.calls)
           ELSE NotMadeR("NONE", made.calls)

(***************************************************************************)
(* Directory connection handlers.  A handler yields the connection after   *)
(* it (self), the status it answered on the connection ("NONE": the        *)
(* request has no response), the connection it created, the collaborator   *)
(* calls it made, the directories it had a token minted for and whether it *)
(* returned an error (err); for Unlink, Rename and Link also the arguments *)
(* of the call that changes a directory (args) and the status returned by  *)
(* the collaborator call the handler took its answer from (ret); for the   *)
(* requests of a file the arguments of the backing file's call (args) and  *)
(* what the backing file reported or the response carries (got).           *)
(***************************************************************************)
Out(self, resp, mk, calls, minted) ==
  [self |-> self, resp |-> resp, mk |-> mk, calls |-> calls, minted |-> minted,
   err |-> FALSE, args |-> <<>>, ret |-> "NONE", got |-> <<>>]

\* A Clone that goes on with the flags it was asked for when the rights are
\* refused.
handle_clone_ignores_refusal(self, c, flags, mode, env) ==
  LET r == inherit_rights_for_clone(self.flags, flags)
  IN  IF ~r.ok THEN create_connection(self.node, flags, mode, c, env)
      ELSE create_connection(self.node, r.val, mode, c, env)

\* BaseConnection::handle_clone
handle_clone(self, c, flags, mode, env) ==
  LET r == inherit_rights_for_clone(self.flags, flags)
  IN  IF ~r.ok THEN NotMadeR(r.status, <<>>)
      ELSE create_connection(self.node, r.val, mode, c, env)

\* BaseConnection::handle_open.  The check of the child's flags is given
\* the connection's flags and the request's flags and yields the flags to
\* open with; it sees no mode.  The directory's open is called with the
\* request's mode, with MODE_TYPE_DIRECTORY added for a path that ends in a
\* slash.
handle_open(self, c, flags, mode, path, env) ==
  IF path = "/" \/ path = "" THEN NotMadeR("BAD_PATH", <<>>)
  ELSE IF path = "." \/ path = "./" THEN handle_clone(self, c, flags, mode, env)
  ELSE LET p == validate_and_split(path)
       IN  IF ~p.ok THEN NotMadeR(p.status, <<>>)
           ELSE LET mode1 == IF p.val.is_dir THEN mode \cup MODE_TYPE_DIRECTORY ELSE mode
                    r == check_child_connection_flags(self.flags, flags, {})
                IN  IF ~r.ok THEN NotMadeR(r.status, <<>>)
                    ELSE entry_open(self.node, r.val.flags, mode1,
                                    p.val.names, p.val.is_dir, c, env)

\* An Unlink that does not look at the connection's rights.
handle_unlink_unchecked(self, path, env) ==
  Out(self, env.status, NoCreate, <<"unlink">>, {})

\* An Unlink that takes "." and "./" for names to split.
handle_unlink_dot_unchecked(self, path, env) ==
  IF self.flags \cap OPEN_RIGHT_WRITABLE = {} THEN Out(self, "ACCESS_DENIED", NoCreate, <<>>, {})
  ELSE IF path \in {"/", ""} THEN Out(self, "BAD_PATH", NoCreate, <<>>, {})
  ELSE [Out(self, env.status, NoCreate, <<"unlink">>, {})
          EXCEPT !.args = <<path>>, !.ret = env.status]

\* An Unlink that unlinks the first component of a longer path.
handle_unlink_first_component(self, path, env) ==
  IF self.flags \cap OPEN_RIGHT_WRITABLE = {} THEN Out(self, "ACCESS_DENIED", NoCreate, <<>>, {})
  ELSE IF path \in {"/", "", ".", "./"} THEN Out(self, "BAD_PATH", NoCreate, <<>>, {})
  ELSE LET p == validate_and_split(path)
       IN  IF ~p.ok THEN Out(self, p.status, NoCreate, <<>>, {})
           ELSE IF p.val.names = <<>> THEN Out(self, "BAD_PATH", NoCreate, <<>>, {})
           ELSE [Out(self, env.status, NoCreate, <<"unlink">>, {})
                   EXCEPT !.args = <<Head(p.val.names)>>, !.ret = env.status]

\* MutableConnection::handle_unlink
handle_unlink(self, path, env) ==
  IF self.flags \cap OPEN_RIGHT_WRITABLE = {} THEN Out(self, "ACCESS_DENIED", NoCreate, <<>>, {})
  ELSE IF path \in {"/", "", ".", "./"} THEN Out(self, "BAD_PATH", NoCreate, <<>>, {})
  ELSE LET p == validate_and_split(path)
       IN  IF ~p.ok THEN Out(self, p.status, NoCreate, <<>>, {})
           ELSE IF p.val.names = <<>> THEN Out(self, "BAD_PATH", NoCreate, <<>>, {})
           ELSE IF Tail(p.val.names) # <<>> THEN Out(self, "BAD_PATH", NoCreate, <<>>, {})
           ELSE [Out(self, env.status, NoCreate, <<"unlink">>, {})
                   EXCEPT !.args = <<Head(p.val.names)>>, !.ret = env.status]

\* A GetToken that asks for a token without looking for the registry.
handle_get_token_no_registry_check(self, env) ==
  IF self.flags \cap OPEN_RIGHT_WRITABLE = {} THEN Out(self, "ACCESS_DENIED", NoCreate, <<>>, {})
  ELSE IF env.status # "OK" THEN Out(self, env.status, NoCreate, <<"get_token">>, {})
  ELSE Out(self, "OK", NoCreate, <<"get_token">>, {self.node})

\* A GetToken that does not look at the connection's rights.
handle_get_token_unchecked(self, env) ==
  IF ~scope.registry THEN Out(self, "NOT_SUPPORTED", NoCreate, <<>>, {})
  ELSE IF env.status # "OK" THEN Out(self, env.status, NoCreate, <<"get_token">>, {})
  ELSE Out(self, "OK", NoCreate, <<"get_token">>, {self.node})

\* MutableConnection::handle_get_token
handle_get_token(self, env) ==
  IF self.flags \cap OPEN_RIGHT_WRITABLE = {} THEN Out(self, "ACCESS_DENIED", NoCreate, <<>>, {})
  ELSE IF ~scope.registry THEN Out(self, "NOT_SUPPORTED", NoCreate, <<>>, {})
  ELSE IF env.status # "OK" THEN Out(self, env.status, NoCreate, <<"get_token">>, {})
  ELSE Out(self, "OK", NoCreate, <<"get_token">>, {self.node})

\* A Rename that hands the filesystem the two directories the other way round.
handle_rename_swapped(self, src, dst_parent_token, dst, env) ==
  IF self.flags \cap OPEN_RIGHT_WRITABLE = {} THEN Out(self, "ACCESS_DENIED", NoCreate, <<>>, {})
  ELSE IF ~scope.registry THEN Out(self, "NOT_SUPPORTED", NoCreate, <<>>, {})
  ELSE IF env.lookup # "OK"
  THEN [Out(self, env.lookup, NoCreate, <<"get_container">>, {}) EXCEPT !.ret = env.lookup]
  ELSE IF dst_parent_token \notin tokens
  THEN Out(self, "NOT_FOUND", NoCreate, <<"get_container">>, {})
  ELSE [Out(self, env.status, NoCreate, <<"get_container", "rename">>, {})
          EXCEPT !.args = <<dst_parent_token, src, self.node, dst>>, !.ret = env.status]

\* MutableConnection::handle_rename; the token names the directory it was
\* minted for, and the registry knows the tokens it minted.
handle_rename(self, src, dst_parent_token, dst, env) ==
  IF self.flags \cap OPEN_RIGHT_WRITABLE = {} THEN Out(self, "ACCESS_DENIED", NoCreate, <<>>, {})
  ELSE IF ~scope.registry THEN Out(self, "NOT_SUPPORTED", NoCreate, <<>>, {})
  ELSE LET dst_parent == get_container(dst_parent_token, env)
       IN  IF ~dst_parent.ok
           THEN [Out(self, dst_parent.status, NoCreate, <<"get_container">>, {})
                   EXCEPT !.ret = dst_parent.status]
           ELSE IF dst_parent.val = NoNode
           THEN Out(self, "NOT_FOUND", NoCreate, <<"get_container">>, {})
           ELSE [Out(self, env.status, NoCreate, <<"get_container", "rename">>, {})
                   EXCEPT !.args = <<self.node, src, dst_parent.val, dst>>,
                          !.ret = env.status]

\* A Link that looks the token up before it asks whether the entry can be
\* linked.
handle_link_lookup_first(self, src, dst_parent_token, dst, env) ==
  IF ~scope.registry THEN Out(self, "NOT_SUPPORTED", NoCreate, <<>>, {})
  ELSE IF get_entry(self.node, src) = NoNode
  THEN [Out(self, "NOT_FOUND", NoCreate, <<"get_entry">>, {}) EXCEPT !.ret = "NOT_FOUND"]
  ELSE IF env.lookup # "OK"
  THEN [Out(self, env.lookup, NoCreate, <<"get_entry", "get_container">>, {})
          EXCEPT !.ret = env.lookup]
  ELSE IF dst_parent_token \notin tokens
  THEN Out(self, "NOT_FOUND", NoCreate, <<"get_entry", "get_container">>, {})
  ELSE IF ~can_hardlink(get_entry(self.node, src))
  THEN Out(self, "NOT_FILE", NoCreate, <<"get_entry", "get_container", "can_hardlink">>, {})
  ELSE [Out(self, env.status, NoCreate,
            <<"get_entry", "get_container", "can_hardlink", "link">>, {})
          EXCEPT !.args = <<dst_parent_token, dst, get_entry(self.node, src)>>,
                 !.ret = env.status]

\* BaseConnection::handle_link
handle_link(self, src, dst_parent_token, dst, env) ==
  IF ~scope.registry THEN Out(self, "NOT_SUPPORTED", NoCreate, <<>>, {})
  ELSE LET entry == get_entry(self.node, src)
           dst_parent == get_container(dst_parent_token, env)
       IN  IF entry = NoNode
           THEN [Out(self, "NOT_FOUND", NoCreate, <<"get_entry">>, {})
                   EXCEPT !.ret = "NOT_FOUND"]
           ELSE IF ~can_hardlink(entry)
           THEN Out(self, "NOT_FILE", NoCreate, <<"get_entry", "can_hardlink">>, {})
           ELSE IF ~dst_parent.ok
           THEN [Out(self, dst_parent.status, NoCreate,
                     <<"get_entry", "can_hardlink", "get_container">>, {})
                   EXCEPT !.ret = dst_parent.status]
           ELSE IF dst_parent.val = NoNode
           THEN Out(self, "NOT_FOUND", NoCreate,
                    <<"get_entry", "can_hardlink", "get_container">>, {})
           ELSE [Out(self, env.status, NoCreate,
                     <<"get_entry", "can_hardlink", "get_container", "link">>, {})
                   EXCEPT !.args = <<dst_parent.val, dst, entry>>, !.ret = env.status]

\* The cursor of a connection that has not read its directory yet or has
\* rewound: TraversalPosition's default.
DefaultPosition == 0

\* What the directory's read_dirents returned: a failure ("Err"), a sealed
\* result that is a Done, or a sealed result that is something else.
ReadDirentsResult(env) == IF env.status # "OK" THEN "Err" ELSE env.dirents

\* OpenFile::close: the file is taken out of the wrapper and closed.
OpenFile_close(self) ==
  IF self.open THEN [self EXCEPT !.open = FALSE, !.closes = @ + 1] ELSE self

\* Dropping the OpenFile closes the file when it still holds it.
OpenFile_drop(self) ==
  IF self.open THEN [self EXCEPT !.open = FALSE, !.closes = @ + 1] ELSE self

\* panic! in a handler: a build that unwinds drops the task on its way out,
\* and with it the connection and the OpenFile; a build that aborts ends
\* the process with everything as it is.
panic(self, env) ==
  IF env.unwind THEN OpenFile_drop([self EXCEPT !.state = "Panicked"])
  ELSE [self EXCEPT !.state = "Panicked"]

\* A ReadDirents that leaves the cursor where it was when the directory
\* does not return one.
handle_read_dirents_keeps_seek(self, max_bytes, env) ==
  IF env.status # "OK"
  THEN [Out(self, env.status, NoCreate, <<"read_dirents">>, {})
          EXCEPT !.args = <<self.seek, max_bytes>>, !.ret = ReadDirentsResult(env)]
  ELSE IF env.dirents = "Done"
  THEN [Out(self, env.done, NoCreate, <<"read_dirents">>, {})
          EXCEPT !.args = <<self.seek, max_bytes>>, !.ret = ReadDirentsResult(env), !.got = <<env.pos>>]
  ELSE [Out(self, "NOT_SUPPORTED", NoCreate, <<"read_dirents">>, {})
          EXCEPT !.args = <<self.seek, max_bytes>>, !.ret = ReadDirentsResult(env)]

\* A ReadDirents that ends the connection without a response when the
\* directory's result is not a Done.
handle_read_dirents_fatal(self, max_bytes, env) ==
  LET taken == [self EXCEPT !.seek = DefaultPosition]
  IN  IF env.status # "OK"
      THEN [Out(taken, env.status, NoCreate, <<"read_dirents">>, {})
              EXCEPT !.args = <<self.seek, max_bytes>>, !.ret = ReadDirentsResult(env)]
      ELSE IF env.dirents = "Done"
      THEN [Out([taken EXCEPT !.seek = env.pos], env.done, NoCreate, <<"read_dirents">>, {})
              EXCEPT !.args = <<self.seek, max_bytes>>, !.ret = ReadDirentsResult(env), !.got = <<env.pos>>]
      ELSE [Out([taken EXCEPT !.state = "Closed"], "NONE", NoCreate, <<"read_dirents">>, {})
              EXCEPT !.args = <<self.seek, max_bytes>>, !.ret = ReadDirentsResult(env), !.err = TRUE]

\* BaseConnection::handle_read_dirents.  The cursor is taken out of the
\* connection, which keeps the default, and handed to the directory; a Done
\* carries the cursor to store (got) and the status to answer (OK, or
\* BUFFER_TOO_SMALL when not even the first entry fits), a failure is
\* answered with its status.  A sealed result that is not a Done trips a
\* debug_assert!: a build with debug assertions panics there, any other
\* build answers NOT_SUPPORTED.
handle_read_dirents(self, max_bytes, env) ==
  LET taken == [self EXCEPT !.seek = DefaultPosition]
  IN  IF env.status # "OK"
      THEN [Out(taken, env.status, NoCreate, <<"read_dirents">>, {})
              EXCEPT !.args = <<self.seek, max_bytes>>, !.ret = ReadDirentsResult(env)]
      ELSE IF env.dirents = "Done"
      THEN [Out([taken EXCEPT !.seek = env.pos], env.done, NoCreate, <<"read_dirents">>, {})
              EXCEPT !.args = <<self.seek, max_bytes>>, !.ret = ReadDirentsResult(env), !.got = <<env.pos>>]
      ELSE IF env.build = "debug"
      THEN [Out(panic(taken, env), "NONE", NoCreate, <<"read_dirents">>, {})
              EXCEPT !.args = <<self.seek, max_bytes>>, !.ret = ReadDirentsResult(env), !.err = TRUE]
      ELSE [Out(taken, "NOT_SUPPORTED", NoCreate, <<"read_dirents">>, {})
              EXCEPT !.args = <<self.seek, max_bytes>>, !.ret = ReadDirentsResult(env)]

\* The Rewind arm of BaseConnection::handle_request.
handle_rewind(self) ==
  Out([self EXCEPT !.seek = DefaultPosition], "OK", NoCreate, <<>>, {})

\* A Watch that answers the status of a watcher transport it cannot convert.
handle_watch_reports_conversion(self, mask, options, env) ==
  IF options # 0 THEN Out(self, "INVALID_ARGS", NoCreate, <<>>, {})
  ELSE IF ~env.channel THEN Out(self, "BAD_HANDLE", NoCreate, <<>>, {})
  ELSE [Out(self, env.status, NoCreate, <<"register_watcher">>, {})
          EXCEPT !.args = <<mask>>, !.ret = env.status]

\* The Watch arm of BaseConnection::handle_request with handle_watch.
\* Nonzero options are answered INVALID_ARGS; a watcher transport that does
\* not convert into a channel makes the handler return the error without a
\* response, which ends the loop; otherwise the status of the directory's
\* register_watcher is the answer.
handle_watch(self, mask, options, env) ==
  IF options # 0 THEN Out(self, "INVALID_ARGS", NoCreate, <<>>, {})
  ELSE IF ~env.channel
  THEN [Out([self EXCEPT !.state = "Closed"], "NONE", NoCreate, <<>>, {})
          EXCEPT !.err = TRUE]
  ELSE [Out(self, env.status, NoCreate, <<"register_watcher">>, {})
          EXCEPT !.args = <<mask>>, !.ret = env.status]

\* A handler's responder.send(..)? that fails makes the handler return an
\* error, which ends the loop.
SendFails(out, env) == out.resp # "NONE" /\ ~env.send

\* An Open or Clone that returns its failure as the handler's error.
open_outcome_fails(self, mk) ==
  IF mk.made THEN Out(self, "NONE", mk, <<>>, {})
  ELSE [Out([self EXCEPT !.state = "Closed"], "NONE", mk, <<>>, {}) EXCEPT !.err = TRUE]

\* The Open and Clone arms of BaseConnection::handle_request: whatever
\* handle_open or handle_clone did, the handler goes on to return Alive.
open_outcome(self, mk) == Out(self, "NONE", mk, <<>>, {})

\* MutableConnection::handle_request: the base requests, which
\* BaseConnection::handle_request answers, and the derived ones.  Describe,
\* Sync, GetAttr, SetAttr, GetFlags and SetFlags answer without looking at
\* the directory or changing the connection.
dir_handle_request(self, c, req, env) ==
  LET sent_or_failed(out) ==
        IF SendFails(out, env)
        THEN [out EXCEPT !.self.state = "Closed", !.err = TRUE]
        ELSE out
  IN  sent_or_failed(
        CASE req.kind = "Clone" ->
               open_outcome(self, handle_clone(self, c, req.flags, {}, env))
          [] req.kind = "Open" ->
               open_outcome(self, handle_open(self, c, req.flags, req.mode, req.path, env))
          [] req.kind = "Close" ->
               Out([self EXCEPT !.state = "Closed"], "OK", NoCreate, <<>>, {})
          [] req.kind = "Describe" ->
               [Out(self, "OK", NoCreate, <<>>, {}) EXCEPT !.got = <<"Directory">>]
          [] req.kind \in {"Sync", "SetAttr", "SetFlags"} ->
               Out(self, "NOT_SUPPORTED", NoCreate, <<>>, {})
          [] req.kind = "GetAttr" ->
               [Out(self, "OK", NoCreate, <<>>, {})
                  EXCEPT !.got = <<MODE_TYPE_DIRECTORY
                                     \cup POSIX_DIRECTORY_PROTECTION_ATTRIBUTES>>]
          [] req.kind = "GetFlags" ->
               [Out(self, "OK", NoCreate, <<>>, {}) EXCEPT !.got = <<self.flags>>]
          [] req.kind = "Unlink" -> handle_unlink(self, req.path, env)
          [] req.kind = "GetToken" -> handle_get_token(self, env)
          [] req.kind = "Rename" -> handle_rename(self, req.path, req.n, req.dst, env)
          [] req.kind = "Link" -> handle_link(self, req.path, req.n, req.dst, env)
          [] req.kind = "ReadDirents" -> handle_read_dirents(self, req.n, env)
          [] req.kind = "Rewind" -> handle_rewind(self)
          [] req.kind = "Watch" -> handle_watch(self, req.off, req.n, env))

(***************************************************************************)
(* File connection handlers.                                               *)
(***************************************************************************)
MAX_BUF == 8192

\* An exit that closes the backing file whether or not Close already did.
file_loop_exit_closes_again(self, state) ==
  [self EXCEPT !.state = state, !.open = FALSE, !.closes = @ + 1]

\* FileConnection::handle_requests leaving its loop: the connection, and
\* with it the OpenFile, is dropped.
file_loop_exit(self, state) ==
  OpenFile_drop([self EXCEPT !.state = state])

\* FileConnection::handle_clone
file_handle_clone(self, c, flags, env) ==
  LET r == inherit_rights_for_clone(self.flags, flags)
  IN  IF ~r.ok THEN NotMadeR(r.status, <<>>)
      ELSE entry_open(FileNode, r.val, {}, <<>>, FALSE, c, env)

\* What a file handler yields: the connection after it, the status, the
\* calls made to the backing file, the arguments of the call and the numbers
\* the backing file reported (bytes transferred, size, end offset).
FileResult(self, status, calls, args, got) ==
  [self |-> self, status |-> status, calls |-> calls, args |-> args, got |-> got]

Min(a, b) == IF a < b THEN a ELSE b

\* A read that looks at the count before it looks at the rights.
file_handle_read_at_count_first(self, offset, count, env) ==
  IF count > MAX_BUF
  THEN FileResult(self, "OUT_OF_RANGE", <<>>, <<>>, <<>>)
  ELSE IF self.flags \cap OPEN_RIGHT_READABLE = {}
  THEN FileResult(self, "BAD_HANDLE", <<>>, <<>>, <<>>)
  ELSE IF env.status # "OK"
  THEN FileResult(self, env.status, <<"read_at">>, <<offset, count>>, <<>>)
  ELSE FileResult(self, "OK", <<"read_at">>, <<offset, count>>, <<Min(env.n, count)>>)

\* FileConnection::handle_read_at.  The backing file reports how many bytes
\* it read, at most the size of the buffer.
file_handle_read_at(self, offset, count, env) ==
  IF self.flags \cap OPEN_RIGHT_READABLE = {}
  THEN FileResult(self, "BAD_HANDLE", <<>>, <<>>, <<>>)
  ELSE IF count > MAX_BUF
  THEN FileResult(self, "OUT_OF_RANGE", <<>>, <<>>, <<>>)
  ELSE IF env.status # "OK"
  THEN FileResult(self, env.status, <<"read_at">>, <<offset, count>>, <<>>)
  ELSE FileResult(self, "OK", <<"read_at">>, <<offset, count>>, <<Min(env.n, count)>>)

\* A WriteAt that leaves the seek behind the bytes it wrote.
file_handle_write_at_moves_seek(self, offset, len, env) ==
  IF self.flags \cap OPEN_RIGHT_WRITABLE = {}
  THEN FileResult(self, "BAD_HANDLE", <<>>, <<>>, <<0>>)
  ELSE IF env.status # "OK"
  THEN FileResult(self, env.status, <<"write_at">>, <<offset, len>>, <<0>>)
  ELSE FileResult([self EXCEPT !.seek = offset + Min(env.n, len)], "OK", <<"write_at">>,
                  <<offset, len>>, <<Min(env.n, len)>>)

\* FileConnection::handle_write_at.  The backing file reports how many bytes
\* it wrote; a failure counts as 0 bytes.
file_handle_write_at(self, offset, len, env) ==
  IF self.flags \cap OPEN_RIGHT_WRITABLE = {}
  THEN FileResult(self, "BAD_HANDLE", <<>>, <<>>, <<0>>)
  ELSE IF env.status # "OK"
  THEN FileResult(self, env.status, <<"write_at">>, <<offset, len>>, <<0>>)
  ELSE FileResult(self, "OK", <<"write_at">>, <<offset, len>>, <<Min(env.n, len)>>)

\* A Write that advances the seek by the length of the data.
file_handle_write_whole(self, len, env) ==
  IF self.flags \cap OPEN_RIGHT_WRITABLE = {}
  THEN FileResult(self, "BAD_HANDLE", <<>>, <<>>, <<0>>)
  ELSE IF env.status # "OK"
  THEN FileResult(self, env.status, <<"write_at">>, <<self.seek, len>>, <<0>>)
  ELSE FileResult([self EXCEPT !.seek = @ + len], "OK", <<"write_at">>,
                  <<self.seek, len>>, <<Min(env.n, len)>>)

\* A Write that goes to the stored seek although the connection appends.
file_handle_write_no_append(self, len, env) ==
  IF self.flags \cap OPEN_RIGHT_WRITABLE = {}
  THEN FileResult(self, "BAD_HANDLE", <<>>, <<>>, <<0>>)
  ELSE IF env.status # "OK"
  THEN FileResult(self, env.status, <<"write_at">>, <<self.seek, len>>, <<0>>)
  ELSE FileResult([self EXCEPT !.seek = @ + Min(env.n, len)], "OK", <<"write_at">>,
                  <<self.seek, len>>, <<Min(env.n, len)>>)

\* FileConnection::handle_write.  An append reports the bytes written and
\* the offset they end at, which for the file of the tests is its size plus
\* the length of the data (env.n: the size); the offset becomes the seek.
\* Without APPEND the data goes to the stored seek, which advances by the
\* bytes written.
file_handle_write(self, len, env) ==
  IF self.flags \cap OPEN_RIGHT_WRITABLE = {}
  THEN FileResult(self, "BAD_HANDLE", <<>>, <<>>, <<0>>)
  ELSE IF self.flags \cap OPEN_FLAG_APPEND # {}
  THEN IF env.status # "OK"
       THEN FileResult(self, env.status, <<"append">>, <<len>>, <<0>>)
       ELSE FileResult([self EXCEPT !.seek = env.n + len], "OK", <<"append">>,
                       <<len>>, <<len, env.n + len>>)
  ELSE LET advanced(w) == [w EXCEPT !.self.seek = @ + w.got[1]]
       IN  advanced(file_handle_write_at(self, self.seek, len, env))

\* A Seek that stores the result before it looks at its sign.
file_handle_seek_unchecked(self, offset, start, env) ==
  IF start = "Start" THEN FileResult([self EXCEPT !.seek = offset], "OK", <<>>, <<>>, <<>>)
  ELSE IF start = "Current"
  THEN FileResult([self EXCEPT !.seek = @ + offset], "OK", <<>>, <<>>, <<>>)
  ELSE IF env.status # "OK" THEN FileResult(self, env.status, <<"get_size">>, <<>>, <<>>)
  ELSE FileResult([self EXCEPT !.seek = env.n + offset], "OK", <<"get_size">>, <<>>,
                  <<env.n>>)

\* FileConnection::handle_seek (env.n: the size the backing file reports).
file_handle_seek(self, offset, start, env) ==
  IF self.flags \cap OPEN_FLAG_NODE_REFERENCE # {}
  THEN FileResult(self, "BAD_HANDLE", <<>>, <<>>, <<>>)
  ELSE LET r == CASE start = "Start"   -> [status |-> "OK", new_seek |-> offset]
                  [] start = "Current" -> [status |-> "OK", new_seek |-> self.seek + offset]
                  [] start = "End" ->
                       IF env.status = "OK"
                       THEN [status |-> "OK", new_seek |-> env.n + offset]
                       ELSE [status |-> env.status, new_seek |-> self.seek]
           calls == IF start = "End" THEN <<"get_size">> ELSE <<>>
           got   == IF start = "End" /\ env.status = "OK" THEN <<env.n>> ELSE <<>>
       IN  IF r.new_seek < 0
           THEN FileResult(self, "OUT_OF_RANGE", calls, <<>>, got)
           ELSE FileResult([self EXCEPT !.seek = r.new_seek], r.status, calls, <<>>, got)

\* The flags of a GetBuffer: VMO_FLAG_READ, VMO_FLAG_WRITE, VMO_FLAG_EXEC.
VMO_FLAG_READ  == {0}   \* 0x0000_0001
VMO_FLAG_WRITE == {1}   \* 0x0000_0002
VMO_FLAG_EXEC  == {2}   \* 0x0000_0004

\* VmoFlags::from_bits_truncate: the bits that are no VmoFlags are dropped
\* (READ, WRITE, EXECUTE, PRIVATE_CLONE 0x10000, SHARED_BUFFER 0x20000).
VmoFlags_from_bits_truncate(flags) ==
  flags \cap (VMO_FLAG_READ \cup VMO_FLAG_WRITE \cup VMO_FLAG_EXEC \cup {16, 17})

\* file::common::get_buffer_validate_flags: each access the buffer is asked
\* for needs the matching right of the connection.
get_buffer_validate_flags(vmo_flags, flags) ==
  IF \/ vmo_flags \cap VMO_FLAG_READ # {} /\ flags \cap OPEN_RIGHT_READABLE = {}
     \/ vmo_flags \cap VMO_FLAG_WRITE # {} /\ flags \cap OPEN_RIGHT_WRITABLE = {}
     \/ vmo_flags \cap VMO_FLAG_EXEC # {} /\ flags \cap OPEN_RIGHT_EXECUTABLE = {}
  THEN Err("ACCESS_DENIED")
  ELSE Ok(vmo_flags)

\* FileConnection::handle_get_buffer
file_handle_get_buffer(self, vmo_flags, env) ==
  IF ~get_buffer_validate_flags(vmo_flags, self.flags).ok
  THEN FileResult(self, "ACCESS_DENIED", <<>>, <<>>, <<>>)
  ELSE FileResult(self, env.status, <<"get_buffer">>, <<vmo_flags>>, <<>>)

\* FileConnection::handle_get_attr
file_handle_get_attr(self, env) ==
  FileResult(self, env.status, <<"get_attrs">>, <<>>, <<>>)

\* FileConnection::handle_set_attr
file_handle_set_attr(self, env) ==
  IF self.flags \cap OPEN_RIGHT_WRITABLE = {}
  THEN FileResult(self, "BAD_HANDLE", <<>>, <<>>, <<>>)
  ELSE FileResult(self, env.status, <<"set_attrs">>, <<>>, <<>>)

\* FileConnection::handle_truncate
file_handle_truncate(self, length, env) ==
  IF self.flags \cap OPEN_RIGHT_WRITABLE = {}
  THEN FileResult(self, "BAD_HANDLE", <<>>, <<>>, <<>>)
  ELSE FileResult(self, env.status, <<"truncate">>, <<length>>, <<>>)

\* The flags GetFlags shows: the rights, APPEND and NODE_REFERENCE.
GET_FLAGS_VISIBLE == FS_RIGHTS \cup OPEN_FLAG_APPEND \cup OPEN_FLAG_NODE_REFERENCE

\* A SetFlags that stores the flags it is given.
file_set_flags_all(self, flags) == [self EXCEPT !.flags = flags]

\* The SetFlags arm of handle_request: only OPEN_FLAG_APPEND is taken over.
file_set_flags(self, flags) ==
  [self EXCEPT !.flags = (@ \ OPEN_FLAG_APPEND) \cup (flags \cap OPEN_FLAG_APPEND)]

\* A responder's send at the end of an arm of handle_request: when it fails
\* the handler returns the error and the connection is dropped.
FileRespond(r, env) ==
  LET sent_or_failed(out) ==
        IF ~env.send THEN [out EXCEPT !.self.state = "Dropped", !.err = TRUE] ELSE out
  IN  sent_or_failed([Out(r.self, r.status, NoCreate, r.calls, {})
                        EXCEPT !.args = r.args, !.got = r.got])

\* A Read that advances the seek by the count it was asked for.
file_read_advance_count(self, r, count) ==
  IF r.status = "OK" THEN [self EXCEPT !.seek = @ + count] ELSE self

\* The Read arm of handle_request after the response was sent: the seek
\* advances by the bytes read, by 0 after a failure.
file_read_advance(self, r, count) ==
  IF r.status = "OK" THEN [self EXCEPT !.seek = @ + r.got[1]] ELSE self

\* FileConnection::handle_request.  Close answers what the file's close
\* returned and ends the loop; Read advances the seek position after its
\* response was sent.
file_handle_request(self, c, req, env) ==
  CASE req.kind = "Clone" ->
         Out(self, "NONE", file_handle_clone(self, c, req.flags, env), <<>>, {})
    [] req.kind = "CloseDeprecated" ->
         Out([OpenFile_close(self) EXCEPT !.state = "Closed"], env.status, NoCreate,
             <<"close">>, {})
    [] req.kind = "Close" ->
         LET closed == OpenFile_close(self)
             out == Out([closed EXCEPT !.state = "Closed"], env.status, NoCreate,
                        <<"close">>, {})
         IN  IF ~env.send
             THEN [out EXCEPT !.self.state = "Dropped", !.err = TRUE]
             ELSE out
    [] req.kind \in ReadKindsOf ->
         LET advanced(r) ==
               IF ~env.send THEN FileRespond(r, env)
               ELSE FileRespond([r EXCEPT !.self = file_read_advance(self, r, req.n)], env)
         IN  advanced(file_handle_read_at(self, self.seek, req.n, env))
    [] req.kind \in ReadAtKindsOf ->
         FileRespond(file_handle_read_at(self, req.off, req.n, env), env)
    [] req.kind \in WriteKindsOf -> FileRespond(file_handle_write(self, req.n, env), env)
    [] req.kind \in WriteAtKindsOf ->
         FileRespond(file_handle_write_at(self, req.off, req.n, env), env)
    [] req.kind \in SeekKindsOf ->
         FileRespond(file_handle_seek(self, req.n, req.origin, env), env)
    [] req.kind \in {"Truncate", "Resize"} ->
         FileRespond(file_handle_truncate(self, req.n, env), env)
    [] req.kind = "SetAttr" -> FileRespond(file_handle_set_attr(self, env), env)
    [] req.kind = "GetAttr" -> FileRespond(file_handle_get_attr(self, env), env)
    [] req.kind \in {"Sync", "SyncDeprecated"} ->
         FileRespond(FileResult(self, env.status, <<"sync">>, <<>>, <<>>), env)
    [] req.kind = "Describe" ->
         IF env.status # "OK"
         THEN [Out([self EXCEPT !.state = "Dropped"], "NONE", NoCreate, <<"describe">>, {})
                 EXCEPT !.args = <<self.flags>>, !.err = TRUE]
         ELSE FileRespond(FileResult(self, "OK", <<"describe">>, <<self.flags>>, <<>>), env)
    [] req.kind = "GetBuffer" ->
         FileRespond(file_handle_get_buffer(self, VmoFlags_from_bits_truncate(req.flags),
                                            env), env)
    [] req.kind = "GetBackingMemory" ->
         FileRespond(file_handle_get_buffer(self, req.flags, env), env)
    [] req.kind \in {"GetFlags", "GetFlagsDeprecatedUseNode"} ->
         FileRespond(FileResult(self, "OK", <<>>, <<>>,
                                <<self.flags \cap GET_FLAGS_VISIBLE>>), env)
    [] req.kind \in {"SetFlags", "SetFlagsDeprecatedUseNode"} ->
         FileRespond(FileResult(file_set_flags(self, req.flags), "OK", <<>>, <<>>, <<>>),
                     env)
    [] req.kind = "AdvisoryLock" ->
         FileRespond(FileResult(self, "NOT_SUPPORTED", <<>>, <<>>, <<>>), env)
    [] req.kind = "QueryFilesystem" ->
         FileRespond(FileResult(self, env.status, <<"query_filesystem">>, <<>>, <<>>), env)
    [] OTHER ->
         [Out(panic(self, env), "NONE", NoCreate, <<>>, {}) EXCEPT !.err = TRUE]

(***************************************************************************)
(* The requests the clients send.  "Garbage" is a message that does not    *)
(* decode: the request stream yields an error for it.                      *)
(***************************************************************************)
Req(kind, flags, path, origin, n) ==
  [kind |-> kind, flags |-> flags, mode |-> {}, path |-> path, origin |-> origin, n |-> n,
   dst |-> "", off |-> 0]

\* A Rename or Link: the source name, the token and the destination name.
ReqMove(kind, src, token, dst) ==
  [kind |-> kind, flags |-> {}, mode |-> {}, path |-> src, origin |-> "Start", n |-> token,
   dst |-> dst, off |-> 0]

\* A ReadAt or WriteAt: the offset and the count of bytes.
ReqAt(kind, offset, count) ==
  [kind |-> kind, flags |-> {}, mode |-> {}, path |-> "", origin |-> "Start", n |-> count,
   dst |-> "", off |-> offset]

R_  == OPEN_RIGHT_READABLE
RW_ == OPEN_RIGHT_READABLE \cup OPEN_RIGHT_WRITABLE
RPW == OPEN_RIGHT_READABLE \cup OPEN_FLAG_POSIX_WRITABLE

DirRequests ==
  {Req("Open", RPW, "sub", "Start", 0),
   Req("Open", RW_, "file", "Start", 0), Req("Open", RPW, ".", "Start", 0),
   Req("Open", R_, "", "Start", 0), Req("Open", R_, "..", "Start", 0),
   Req("Clone", CLONE_FLAG_SAME_RIGHTS, "", "Start", 0),
   Req("Clone", RW_, "", "Start", 0),
   Req("Close", {}, "", "Start", 0), Req("Garbage", {}, "", "Start", 0),
   Req("GetToken", {}, "", "Start", 0), Req("Unlink", {}, "x", "Start", 0),
   ReqMove("Rename", "x", RootDir, "y")}

FileRequests ==
  {Req("Clone", CLONE_FLAG_SAME_RIGHTS, "", "Start", 0),
   Req("Close", {}, "", "Start", 0), Req("Garbage", {}, "", "Start", 0),
   Req("Read", {}, "", "Start", 2), Req("Write", {}, "", "Start", 1),
   Req("Seek", {}, "", "Start", 1), Req("Seek", {}, "", "Current", -1),
   Req("Seek", {}, "", "End", 0)}

Requests(self) == IF self.kind = "dir" THEN DirRequests ELSE FileRequests

HasFree  == \E c \in ConnIds : conns[c].kind = "none"
FreeSlot == CHOOSE c \in ConnIds :
              /\ conns[c].kind = "none"
              /\ \A d \in ConnIds : conns[d].kind = "none" => c <= d

\* A loop that takes the next message while a handler is still running.
ReadyForNext_concurrent(self) == TRUE

\* The serving loop awaits the handler before it polls the stream again.
ReadyForNext(self) == self.inflight = NoReq

\* A loop that keeps serving after Close.
dir_loop_exit_keeps_serving(self) == [self EXCEPT !.state = "Alive"]

\* directory handle_requests leaving its loop: the connection is dropped,
\* and with it the OpenDirectory of an ImmutableConnection, which closes
\* the directory.
dir_loop_exit(self) == OpenFile_drop([self EXCEPT !.state = "Closed"])

(***************************************************************************)
(* Actions                                                                 *)
(***************************************************************************)
\* A client writes a message into its end of a connection's channel.
ClientSend(c, req) ==
  /\ conns[c].kind # "none" /\ conns[c].peer
  /\ conns[c].state \in Starting \cup {"Alive"}
  /\ sent < MaxSent
  /\ Len(conns[c].queue) < MaxQueue
  /\ conns' = [conns EXCEPT ![c].queue = Append(@, req)]
  /\ sent' = sent + 1
  /\ UNCHANGED <<last, tokens, scope, flagVars, renameVars>>

\* A client drops its end of the channel.
ClientDrop(c) ==
  /\ conns[c].kind # "none" /\ conns[c].peer
  /\ sent < MaxSent
  /\ conns' = [conns EXCEPT ![c].peer = FALSE]
  /\ sent' = sent + 1
  /\ UNCHANGED <<last, tokens, scope, flagVars, renameVars>>

\* requests.next() yields a message: a request goes to the handler, a
\* message that does not decode ends the loop.
Dispatch(c) ==
  LET self == conns[c]
      req  == Head(self.queue)
      rest == [self EXCEPT !.queue = Tail(@)]
  IN  /\ self.kind # "none" /\ self.state = "Alive"
      /\ ReadyForNext(self)
      /\ self.queue # <<>>
      /\ conns' = [conns EXCEPT ![c] =
                     IF req.kind # "Garbage" THEN [rest EXCEPT !.inflight = req]
                     ELSE IF self.kind = "dir" THEN dir_loop_exit(rest)
                     ELSE file_loop_exit(rest, "Dropped")]
      /\ UNCHANGED <<sent, last, tokens, scope, flagVars, renameVars>>

\* requests.next() yields None: the client is gone and nothing is left to read.
StreamEnd(c) ==
  LET self == conns[c]
  IN  /\ self.kind # "none" /\ self.state = "Alive"
      /\ ReadyForNext(self)
      /\ self.queue = <<>> /\ ~self.peer
      /\ conns' = [conns EXCEPT ![c] =
                     IF self.kind = "dir" THEN dir_loop_exit(self)
                     ELSE file_loop_exit(self, "Dropped")]
      /\ UNCHANGED <<sent, last, tokens, scope, flagVars, renameVars>>

\* ExecutionScope::shutdown
Shutdown ==
  /\ ~scope.shutdown
  /\ sent < MaxSent
  /\ scope' = [scope EXCEPT !.shutdown = TRUE]
  /\ sent' = sent + 1
  /\ UNCHANGED <<conns, last, tokens, flagVars, renameVars>>

\* A shutdown that stops a file connection in the middle of a handler.
FileShutdownExit_preemptive(c) ==
  LET self == conns[c]
  IN  /\ self.kind = "file" /\ self.state = "Alive"
      /\ scope.shutdown
      /\ conns' = [conns EXCEPT ![c] = file_loop_exit(self, "Dropped")]
      /\ UNCHANGED <<sent, last, tokens, scope, flagVars, renameVars>>

\* A file connection waiting for its next request sees the shutdown signal.
FileShutdownExit(c) ==
  LET self == conns[c]
  IN  /\ self.kind = "file" /\ self.state = "Alive"
      /\ ReadyForNext(self)
      /\ scope.shutdown
      /\ conns' = [conns EXCEPT ![c] = file_loop_exit(self, "Dropped")]
      /\ UNCHANGED <<sent, last, tokens, scope, flagVars, renameVars>>

\* The serving task of an ImmutableConnection, waiting for its next
\* request, sees the shutdown signal it was spawned with.
DirShutdownExit(c) ==
  LET self == conns[c]
  IN  /\ self.kind = "dir" /\ Immutable(self.node) /\ self.state = "Alive"
      /\ ReadyForNext(self)
      /\ scope.shutdown
      /\ conns' = [conns EXCEPT ![c] = dir_loop_exit(self)]
      /\ UNCHANGED <<sent, last, tokens, scope, flagVars, renameVars>>

\* The loop after handle_request returned: it goes on when the connection
\* is Alive and leaves otherwise; a handler that panicked does not return.
after_handler(self) ==
  IF self.state \in {"Alive", "Panicked"} THEN [self EXCEPT !.inflight = NoReq]
  ELSE IF self.kind = "dir" THEN dir_loop_exit([self EXCEPT !.inflight = NoReq])
  ELSE file_loop_exit([self EXCEPT !.inflight = NoReq], self.state)

\* What a poll of the start of a file connection can meet: the file's
\* answers to open, truncate and describe, whether the file's futures answer
\* at once, a server end that does not convert into a request stream, and
\* an OnOpen event that cannot be sent, which takes a client that has
\* dropped its end.  Only what the poll reads is drawn: the answer of open
\* in the poll in which open answers, the answer of truncate in the poll in
\* which truncate answers, and describe, the conversion and the event in
\* the poll that gets past both, a poll after a pending truncate included.
StartEnvOf(self) ==
  LET truncates == self.flags \cap OPEN_FLAG_TRUNCATE # {}
      describes == self.flags \cap OPEN_FLAG_DESCRIBE # {}
  IN  {e \in [status   : IF self.state = "Truncating" THEN {"OK"} ELSE {"OK", "IO"},
               status2  : IF truncates THEN {"OK", "IO"} ELSE {"OK"},
               n        : {1},
               send     : {TRUE},
               lookup   : {"OK"},
               dirents  : {"Done"},
               pos      : {1},
               build    : {"release"},
               channel  : {TRUE},
               done     : {"OK"},
               stream   : BOOLEAN,
               event    : IF describes /\ ~self.peer THEN BOOLEAN ELSE {TRUE},
               describe : IF describes THEN {"OK", "IO"} ELSE {"OK"},
               new_type : {"OK"},
               ready    : CASE self.state = "Spawned" -> {0, 1, 2}
                            [] self.state = "Opening" -> {0, 1}
                            [] OTHER                  -> {0},
               unwind   : {TRUE}] :
        LET opens     == self.state = "Opening" \/ (self.state = "Spawned" /\ e.ready >= 1)
            opened    == opens \/ self.state = "Truncating"
            truncated == \/ self.state = "Truncating"
                         \/ self.state = "Opening" /\ e.ready >= 1
                         \/ self.state = "Spawned" /\ e.ready = 2
            serves    == opened /\ (~truncates \/ truncated)
        IN  /\ ~opens => e.status = "OK"
            /\ (e.status # "OK" \/ ~(truncates /\ truncated)) => e.status2 = "OK"
            /\ ~truncates => e.ready # 1
            /\ (e.status # "OK" \/ e.status2 # "OK" \/ ~serves) => e.describe = "OK"
            /\ (e.status # "OK" \/ e.status2 # "OK" \/ e.describe # "OK" \/ ~serves)
                 => e.stream
            /\ (e.status # "OK" \/ e.status2 # "OK" \/ e.describe # "OK" \/ ~e.stream
                  \/ ~serves) => e.event}

\* The task FileConnection::create_connection spawned is polled: it runs
\* create_connection_async from where it waits to its next wait or to the
\* serving loop.  The request recorded is the start itself, with the flags
\* the task holds.
Start(c) ==
  LET self == conns[c]
  IN  /\ self.kind = "file" /\ self.state \in Starting
      /\ \E env \in StartEnvOf(self) :
           \E out \in {create_connection_async(self, env)} :
             /\ conns' = [conns EXCEPT ![c] = out.self]
             /\ last' = [NoLast EXCEPT
                           !.conn = c,
                           !.req = [NoReq EXCEPT !.kind = "Start", !.flags = self.flags],
                           !.created = IF out.made THEN c ELSE 0,
                           !.onopen = out.onopen,
                           !.calls = out.calls,
                           !.ret = out.ret]
      /\ UNCHANGED <<sent, tokens, scope, flagVars, renameVars>>

\* The handler of the request in flight runs to its end.
Finish(c) ==
  LET self == conns[c]
      req  == self.inflight
  IN  /\ self.kind # "none" /\ self.state = "Alive"
      /\ req.kind # "none"
      /\ \E env \in EnvOf(self, req) :
           \E out \in {IF self.kind = "dir"
                       THEN dir_handle_request(self, c, req, env)
                       ELSE file_handle_request(self, c, req, env)} :
             /\ out.mk.made => HasFree
             /\ conns' = IF out.mk.made
                         THEN [conns EXCEPT ![c] = after_handler(out.self),
                                            ![FreeSlot] = out.mk.conn]
                         ELSE [conns EXCEPT ![c] = after_handler(out.self)]
             /\ last' = [conn |-> c, req |-> req, resp |-> out.resp, err |-> out.err,
                         created |-> IF out.mk.made THEN FreeSlot ELSE 0,
                         onopen |-> out.mk.onopen,
                         calls |-> out.calls \o out.mk.calls,
                         args |-> out.args, ret |-> out.ret, got |-> out.got]
             /\ tokens' = tokens \cup out.minted
      /\ UNCHANGED <<sent, scope, flagVars, renameVars>>

InitRootFlags == {R_, RW_}

InitConn ==
  /\ cc = CcIdle
  /\ RenameIdle
  /\ \E f \in InitRootFlags :
       conns = [c \in ConnIds |->
                  IF c = 1 THEN NewDirConn(RootDir, f, 0)
                  ELSE IF c = 2 THEN NewFileConn(RW_, 0)
                  ELSE NoConn]
  /\ sent = 0
  /\ last = NoLast
  /\ tokens = {}
  /\ scope \in [registry : BOOLEAN, shutdown : {FALSE}, constructor : {FALSE}]

NextConn ==
  \/ \E c \in ConnIds : \E req \in Requests(conns[c]) : ClientSend(c, req)
  \/ \E c \in ConnIds : ClientDrop(c)
  \/ \E c \in ConnIds : Dispatch(c)
  \/ \E c \in ConnIds : StreamEnd(c)
  \/ Shutdown
  \/ \E c \in ConnIds : FileShutdownExit(c)
  \/ \E c \in ConnIds : Start(c)
  \/ \E c \in ConnIds : Finish(c)

SpecConn == InitConn /\ [][NextConn]_vars

(***************************************************************************)
(* Two mutable directory connections, the first on RootDir with or without *)
(* OPEN_RIGHT_WRITABLE, the second writable on SubDir, whose clients send  *)
(* Unlink, GetToken, Rename and Link with the paths, names and tokens      *)
(* below.  NoToken is a handle the registry minted no token for.           *)
(***************************************************************************)
NoToken == 3

MutableRequests ==
  {Req("Unlink", {}, "/", "Start", 0), Req("Unlink", {}, "", "Start", 0),
   Req("Unlink", {}, ".", "Start", 0), Req("Unlink", {}, "./", "Start", 0),
   Req("Unlink", {}, "x", "Start", 0), Req("Unlink", {}, "sub/x", "Start", 0),
   Req("GetToken", {}, "", "Start", 0),
   ReqMove("Rename", "x", SubDir, "y"), ReqMove("Rename", "x", NoToken, "y"),
   ReqMove("Link", "file", SubDir, "y"), ReqMove("Link", "sub", SubDir, "y"),
   ReqMove("Link", "x", SubDir, "y"), ReqMove("Link", "file", NoToken, "y")}

InitDir ==
  /\ cc = CcIdle
  /\ RenameIdle
  /\ \E f \in InitRootFlags :
       conns = [c \in ConnIds |->
                  IF c = 1 THEN NewDirConn(RootDir, f, 0)
                  ELSE IF c = 2 THEN NewDirConn(SubDir, RW_, 0)
                  ELSE NoConn]
  /\ sent = 0
  /\ last = NoLast
  /\ tokens = {}
  /\ scope \in [registry : BOOLEAN, shutdown : {FALSE}, constructor : {FALSE}]

NextDir ==
  \/ \E c \in ConnIds : \E req \in MutableRequests : ClientSend(c, req)
  \/ \E c \in ConnIds : ClientDrop(c)
  \/ \E c \in ConnIds : Dispatch(c)
  \/ \E c \in ConnIds : StreamEnd(c)
  \/ \E c \in ConnIds : Finish(c)

SpecDir == InitDir /\ [][NextDir]_vars

(***************************************************************************)
(* The two directory connections of SpecDir whose clients ask for tokens   *)
(* and name RootDir and SubDir as the destination of a Rename or a Link.   *)
(***************************************************************************)
TokenRequests ==
  {Req("GetToken", {}, "", "Start", 0),
   ReqMove("Rename", "x", RootDir, "y"), ReqMove("Rename", "x", SubDir, "y"),
   ReqMove("Link", "file", RootDir, "y"), ReqMove("Link", "file", SubDir, "y")}

NextToken ==
  \/ \E c \in ConnIds : \E req \in TokenRequests : ClientSend(c, req)
  \/ \E c \in ConnIds : ClientDrop(c)
  \/ \E c \in ConnIds : Dispatch(c)
  \/ \E c \in ConnIds : StreamEnd(c)
  \/ \E c \in ConnIds : Finish(c)

SpecToken == InitDir /\ [][NextToken]_vars

(***************************************************************************)
(* The two directory connections, sent Unlink requests                     *)
(***************************************************************************)
UnlinkRequests ==
  {Req("Unlink", {}, "/", "Start", 0), Req("Unlink", {}, "./", "Start", 0),
   Req("Unlink", {}, "x", "Start", 0), Req("Unlink", {}, "file", "Start", 0),
   Req("Unlink", {}, "sub/", "Start", 0), Req("Unlink", {}, "sub/x", "Start", 0),
   Req("Unlink", {}, "x//y", "Start", 0)}

NextUnlink ==
  \/ \E c \in ConnIds : \E req \in UnlinkRequests : ClientSend(c, req)
  \/ \E c \in ConnIds : ClientDrop(c)
  \/ \E c \in ConnIds : Dispatch(c)
  \/ \E c \in ConnIds : StreamEnd(c)
  \/ \E c \in ConnIds : Finish(c)

SpecUnlink == InitDir /\ [][NextUnlink]_vars

(***************************************************************************)
(* One file connection, opened with one of the flag sets of the tests,     *)
(* whose client reads, writes, seeks, truncates and sets attributes and    *)
(* flags; the scope may be shut down.                                      *)
(***************************************************************************)
W_ == OPEN_RIGHT_WRITABLE

InitOpenFlags ==
  {R_, W_, RW_, RW_ \cup OPEN_FLAG_APPEND, RW_ \cup OPEN_FLAG_TRUNCATE,
   OPEN_FLAG_NODE_REFERENCE}

FileOpRequests ==
  {Req("Read", {}, "", "Start", 2), Req("Read", {}, "", "Start", MAX_BUF + 1),
   ReqAt("ReadAt", 5, 2), ReqAt("ReadAt", 5, MAX_BUF + 1),
   Req("Write", {}, "", "Start", 13), ReqAt("WriteAt", 5, 13),
   Req("Truncate", {}, "", "Start", 0), Req("Resize", {}, "", "Start", 0),
   Req("SetAttr", {}, "", "Start", 0),
   Req("Seek", {}, "", "Start", 5), Req("Seek", {}, "", "Current", -4),
   Req("Seek", {}, "", "End", -4),
   Req("GetFlags", {}, "", "Start", 0),
   Req("SetFlags", OPEN_FLAG_APPEND \cup OPEN_FLAG_TRUNCATE \cup W_, "", "Start", 0),
   Req("SetFlags", R_, "", "Start", 0)}

InitFile ==
  /\ cc = CcIdle
  /\ RenameIdle
  /\ \E f \in InitOpenFlags :
       \E v \in {file_new_connection_validate_flags(
                    f, FileReadable, FileWritable, FileExecutable, TRUE)} :
         /\ v.ok
         /\ conns = [c \in ConnIds |-> IF c = 1 THEN NewFileConn(v.val, 0) ELSE NoConn]
  /\ sent = 0
  /\ last = NoLast
  /\ tokens = {}
  /\ scope = [registry |-> FALSE, shutdown |-> FALSE, constructor |-> FALSE]

NextFile ==
  \/ \E c \in ConnIds : \E req \in FileOpRequests : ClientSend(c, req)
  \/ \E c \in ConnIds : ClientDrop(c)
  \/ \E c \in ConnIds : Dispatch(c)
  \/ \E c \in ConnIds : StreamEnd(c)
  \/ Shutdown
  \/ \E c \in ConnIds : FileShutdownExit(c)
  \/ \E c \in ConnIds : Finish(c)

SpecFile == InitFile /\ [][NextFile]_vars

(***************************************************************************)
(* One file connection, somewhere in its file, that is sent one of every   *)
(* request a file connection serves.                                       *)
(***************************************************************************)
EveryFileRequest ==
  {Req("Read", {}, "", "Start", 2), Req("Write", {}, "", "Start", 13),
   Req("Seek", {}, "", "Start", 7), Req("Seek", {}, "", "Current", -9),
   ReqAt("ReadAt", 9, 2), ReqAt("WriteAt", 9, 13),
   Req("Truncate", {}, "", "Start", 0), Req("Resize", {}, "", "Start", 3),
   Req("GetAttr", {}, "", "Start", 0), Req("SetAttr", {}, "", "Start", 0),
   Req("GetFlags", {}, "", "Start", 0), Req("SetFlags", OPEN_FLAG_APPEND, "", "Start", 0),
   Req("Sync", {}, "", "Start", 0), Req("Describe", {}, "", "Start", 0),
   Req("GetBuffer", VMO_FLAG_READ \cup VMO_FLAG_WRITE, "", "Start", 0),
   Req("Clone", CLONE_FLAG_SAME_RIGHTS, "", "Start", 0),
   Req("ReadDeprecated", {}, "", "Start", 2), Req("WriteDeprecated", {}, "", "Start", 13),
   Req("SeekDeprecated", {}, "", "Start", 7),
   ReqAt("ReadAtDeprecated", 9, 2), ReqAt("WriteAtDeprecated", 9, 13),
   Req("SyncDeprecated", {}, "", "Start", 0),
   Req("GetFlagsDeprecatedUseNode", {}, "", "Start", 0),
   Req("SetFlagsDeprecatedUseNode", OPEN_FLAG_APPEND, "", "Start", 0),
   Req("GetBuffer", VMO_FLAG_READ \cup {20}, "", "Start", 0),
   Req("GetBackingMemory", VMO_FLAG_READ, "", "Start", 0),
   Req("AdvisoryLock", {}, "", "Start", 0), Req("QueryFilesystem", {}, "", "Start", 0),
   Req("CloseDeprecated", {}, "", "Start", 0),
   Req("Unhandled", {}, "", "Start", 0)}

InitEvery ==
  /\ cc = CcIdle
  /\ RenameIdle
  /\ \E f \in {RW_, RW_ \cup OPEN_FLAG_APPEND} : \E pos \in {5} :
       conns = [c \in ConnIds |->
                  IF c = 1 THEN [NewFileConn(f, 0) EXCEPT !.seek = pos] ELSE NoConn]
  /\ sent = 0
  /\ last = NoLast
  /\ tokens = {}
  /\ scope = [registry |-> FALSE, shutdown |-> FALSE, constructor |-> FALSE]

NextEvery ==
  \/ \E c \in ConnIds : \E req \in EveryFileRequest : ClientSend(c, req)
  \/ \E c \in ConnIds : ClientDrop(c)
  \/ \E c \in ConnIds : Dispatch(c)
  \/ \E c \in ConnIds : StreamEnd(c)
  \/ \E c \in ConnIds : Start(c)
  \/ \E c \in ConnIds : Finish(c)

SpecEvery == InitEvery /\ [][NextEvery]_vars

(***************************************************************************)
(* One directory connection that is enumerated and watched                 *)
(***************************************************************************)
EnumRequests ==
  {Req("ReadDirents", {}, "", "Start", 64), Req("Rewind", {}, "", "Start", 0),
   ReqAt("Watch", 3, 0), ReqAt("Watch", 3, 1), Req("GetToken", {}, "", "Start", 0)}

\* The connection has not read its directory yet, or an earlier ReadDirents
\* left its cursor at position 2.
InitEnum ==
  /\ cc = CcIdle
  /\ RenameIdle
  /\ \E pos \in {DefaultPosition, 2} :
       conns = [c \in ConnIds |->
                  IF c = 1 THEN [NewDirConn(RootDir, RW_, 0) EXCEPT !.seek = pos]
                  ELSE NoConn]
  /\ sent = 0
  /\ last = NoLast
  /\ tokens = {}
  /\ scope = [registry |-> TRUE, shutdown |-> FALSE, constructor |-> FALSE]

NextEnum ==
  \/ \E c \in ConnIds : \E req \in EnumRequests : ClientSend(c, req)
  \/ \E c \in ConnIds : ClientDrop(c)
  \/ \E c \in ConnIds : Dispatch(c)
  \/ \E c \in ConnIds : StreamEnd(c)
  \/ \E c \in ConnIds : Finish(c)

SpecEnum == InitEnum /\ [][NextEnum]_vars

(***************************************************************************)
(* A directory connection and a file connection that are cloned            *)
(***************************************************************************)
CloneRequests ==
  {Req("Clone", CLONE_FLAG_SAME_RIGHTS, "", "Start", 0),
   Req("Clone", CLONE_FLAG_SAME_RIGHTS \cup W_, "", "Start", 0),
   Req("Clone", CLONE_FLAG_SAME_RIGHTS \cup OPEN_FLAG_NODE_REFERENCE, "", "Start", 0),
   Req("Clone", R_, "", "Start", 0),
   Req("Clone", RW_ \cup OPEN_FLAG_DESCRIBE, "", "Start", 0),
   Req("Clone", {}, "", "Start", 0)}

InitClone ==
  /\ cc = CcIdle
  /\ RenameIdle
  /\ \E f \in {R_, RW_} :
       conns = [c \in ConnIds |->
                  IF c = 1 THEN NewDirConn(RootDir, f, 0)
                  ELSE IF c = 2 THEN NewFileConn(f, 0)
                  ELSE NoConn]
  /\ sent = 0
  /\ last = NoLast
  /\ tokens = {}
  /\ scope = [registry |-> TRUE, shutdown |-> FALSE, constructor |-> FALSE]

NextClone ==
  \/ \E c \in ConnIds : \E req \in CloneRequests : ClientSend(c, req)
  \/ \E c \in ConnIds : ClientDrop(c)
  \/ \E c \in ConnIds : Dispatch(c)
  \/ \E c \in ConnIds : StreamEnd(c)
  \/ \E c \in ConnIds : Start(c)
  \/ \E c \in ConnIds : Finish(c)

SpecClone == InitClone /\ [][NextClone]_vars

(***************************************************************************)
(* A directory connection through which the file is opened with            *)
(* OPEN_FLAG_TRUNCATE, a file connection that serves meanwhile, and the    *)
(* requests of the connections so made                                     *)
(***************************************************************************)
TruncateOpens ==
  {Req("Open", RW_ \cup OPEN_FLAG_TRUNCATE, "file", "Start", 0),
   Req("Open", R_ \cup OPEN_FLAG_TRUNCATE, "file", "Start", 0),
   Req("Open", W_ \cup OPEN_FLAG_TRUNCATE \cup OPEN_FLAG_DESCRIBE, "file", "Start", 0),
   Req("Open", OPEN_FLAG_NODE_REFERENCE \cup OPEN_FLAG_TRUNCATE, "file", "Start", 0),
   Req("Open", OPEN_FLAG_DIRECTORY \cup RW_ \cup OPEN_FLAG_TRUNCATE, "file", "Start", 0),
   Req("Open", RW_, "file", "Start", 0)}

TruncateRequests(self) ==
  IF self.kind = "dir" THEN TruncateOpens
  ELSE IF self.kind = "file"
  THEN {Req("Read", {}, "", "Start", 2), Req("Write", {}, "", "Start", 1)}
  ELSE {}

InitTruncate ==
  /\ cc = CcIdle
  /\ RenameIdle
  /\ \E f \in InitRootFlags :
       conns = [c \in ConnIds |->
                  IF c = 1 THEN NewDirConn(RootDir, f, 0)
                  ELSE IF c = 2 THEN NewFileConn(RW_, 0)
                  ELSE NoConn]
  /\ sent = 0
  /\ last = NoLast
  /\ tokens = {}
  /\ scope = [registry |-> FALSE, shutdown |-> FALSE, constructor |-> FALSE]

NextTruncate ==
  \/ \E c \in ConnIds : \E req \in TruncateRequests(conns[c]) : ClientSend(c, req)
  \/ \E c \in ConnIds : ClientDrop(c)
  \/ \E c \in ConnIds : Dispatch(c)
  \/ \E c \in ConnIds : StreamEnd(c)
  \/ \E c \in ConnIds : Start(c)
  \/ \E c \in ConnIds : Finish(c)

SpecTruncate == InitTruncate /\ [][NextTruncate]_vars

(***************************************************************************)
(* One directory connection, mutable or immutable, that is sent the base   *)
(* requests with a choice of flags, modes and paths, in a scope with or    *)
(* without an entry constructor                                            *)
(***************************************************************************)
ReqOpen(flags, mode, path) ==
  [kind |-> "Open", flags |-> flags, mode |-> mode, path |-> path, origin |-> "Start",
   n |-> 0, dst |-> "", off |-> 0]

BaseRequests ==
  {ReqOpen(OPEN_FLAG_DIRECTORY \cup R_, MODE_TYPE_FILE, "file"),
   ReqOpen(OPEN_FLAG_NOT_DIRECTORY \cup R_, {}, "sub/"),
   ReqOpen(OPEN_FLAG_NOT_DIRECTORY \cup R_, MODE_TYPE_DIRECTORY, "sub"),
   ReqOpen(R_ \cup OPEN_FLAG_DESCRIBE, {}, "sub"),
   ReqOpen(R_ \cup OPEN_FLAG_DESCRIBE, {}, "file"),
   ReqOpen(RW_ \cup OPEN_FLAG_CREATE, {}, "x"),
   ReqOpen(RW_, {}, "."), ReqOpen(R_, {}, ""), ReqOpen(R_, {}, "x"),
   Req("Clone", CLONE_FLAG_SAME_RIGHTS \cup OPEN_FLAG_DESCRIBE, "", "Start", 0),
   Req("Describe", {}, "", "Start", 0), Req("Sync", {}, "", "Start", 0),
   Req("GetAttr", {}, "", "Start", 0), Req("SetAttr", {}, "", "Start", 0),
   Req("GetFlags", {}, "", "Start", 0), Req("SetFlags", OPEN_FLAG_APPEND, "", "Start", 0),
   Req("Close", {}, "", "Start", 0)}

InitBase ==
  /\ cc = CcIdle
  /\ RenameIdle
  /\ \E f \in InitRootFlags : \E d \in {RootDir, ImmDir} :
       conns = [c \in ConnIds |->
                  IF c = 1 THEN [NewDirConn(d, f, 0) EXCEPT !.open = Immutable(d)]
                  ELSE NoConn]
  /\ sent = 0
  /\ last = NoLast
  /\ tokens = {}
  /\ scope \in [registry : {FALSE}, shutdown : {FALSE}, constructor : BOOLEAN]

NextBase ==
  \/ \E c \in ConnIds : \E req \in BaseRequests :
       conns[c].kind = "dir" /\ ClientSend(c, req)
  \/ \E c \in ConnIds : ClientDrop(c)
  \/ \E c \in ConnIds : Dispatch(c)
  \/ \E c \in ConnIds : StreamEnd(c)
  \/ Shutdown
  \/ \E c \in ConnIds : DirShutdownExit(c)
  \/ \E c \in ConnIds : FileShutdownExit(c)
  \/ \E c \in ConnIds : Start(c)
  \/ \E c \in ConnIds : Finish(c)

SpecBase == InitBase /\ [][NextBase]_vars

(***************************************************************************)
(* One file connection and the scope's shutdown                            *)
(***************************************************************************)
ShutdownRequests ==
  {Req("Read", {}, "", "Start", 2), Req("Write", {}, "", "Start", 13),
   Req("Seek", {}, "", "Start", 5), Req("Seek", {}, "", "End", -4)}

InitShutdown ==
  /\ cc = CcIdle
  /\ RenameIdle
  /\ \E f \in {R_, RW_} :
       conns = [c \in ConnIds |-> IF c = 1 THEN NewFileConn(f, 0) ELSE NoConn]
  /\ sent = 0
  /\ last = NoLast
  /\ tokens = {}
  /\ scope = [registry |-> FALSE, shutdown |-> FALSE, constructor |-> FALSE]

NextShutdown ==
  \/ \E c \in ConnIds : \E req \in ShutdownRequests : ClientSend(c, req)
  \/ \E c \in ConnIds : ClientDrop(c)
  \/ \E c \in ConnIds : Dispatch(c)
  \/ \E c \in ConnIds : StreamEnd(c)
  \/ Shutdown
  \/ \E c \in ConnIds : FileShutdownExit(c)
  \/ \E c \in ConnIds : Finish(c)

\* The executor polls a task that was woken: a handler that was started
\* returns, and a task that stays at the select! of its loop with the
\* shutdown signal fired, taking no request, takes the shutdown branch.
FairShutdown ==
  \A c \in ConnIds : WF_vars(Finish(c)) /\ WF_vars(FileShutdownExit(c))

SpecShutdown == InitShutdown /\ [][NextShutdown]_vars /\ FairShutdown

(***************************************************************************)
(* Properties of the connections                                           *)
(***************************************************************************)
\* C2: a connection created through a directory connection's Open or through
\* any connection's Clone never holds a right (READABLE, WRITABLE,
\* EXECUTABLE) that the connection the request was issued on does not hold,
\* the expansion of the remaining POSIX flags included.
C2_CreatedRightsWithinIssuer ==
  \A c \in DOMAIN conns :
    (conns[c].kind # "none" /\ conns[c].parent # 0) =>
      Rights(conns[c].flags) \subseteq Rights(conns[conns[c].parent].flags)

\* An Open asking for POSIX_WRITABLE on a read-only connection made a
\* connection that is read-only too.
C2_Witness ==
  /\ last.req.kind = "Open" /\ last.req.path = "sub"
  /\ OPEN_FLAG_POSIX_WRITABLE \subseteq last.req.flags
  /\ last.created # 0
  /\ Rights(conns[last.conn].flags) = OPEN_RIGHT_READABLE
  /\ Rights(conns[last.created].flags) = OPEN_RIGHT_READABLE

\* C5: on every connection, directory or file, the requests are handled in
\* the order they arrived and one at a time: a request goes to the handler
\* only when none is in flight, it is the oldest one waiting, a handler
\* that completes is the one of the request in flight, and only a
\* connection that serves has a request in flight.
C5_InOrderOneAtATime ==
  [][\A c \in DOMAIN conns :
       /\ (conns'[c].inflight # conns[c].inflight /\ conns'[c].inflight # NoReq) =>
            /\ conns[c].inflight = NoReq
            /\ conns[c].queue # <<>>
            /\ conns'[c].inflight = Head(conns[c].queue)
            /\ conns'[c].queue = Tail(conns[c].queue)
       /\ conns'[c].queue # conns[c].queue =>
            \/ conns[c].queue # <<>> /\ conns'[c].queue = Tail(conns[c].queue)
            \/ /\ Len(conns'[c].queue) = Len(conns[c].queue) + 1
               /\ SubSeq(conns'[c].queue, 1, Len(conns[c].queue)) = conns[c].queue
       /\ (last' # last /\ last'.conn = c /\ last'.req.kind # "Start") =>
            /\ conns[c].inflight = last'.req
            /\ conns'[c].inflight = NoReq
       /\ conns'[c].inflight # NoReq => conns'[c].state = "Alive"
    ]_vars

\* A request is in flight while a different, later one waits behind it.
C5_Witness ==
  \E c \in DOMAIN conns :
    /\ conns[c].inflight # NoReq
    /\ conns[c].queue # <<>>
    /\ Head(conns[c].queue) # conns[c].inflight

\* C6: for every file connection the backing file's close is invoked exactly
\* once when the connection ends, whether by an explicit Close, the client
\* dropping its end, a stream error or shutdown, and never twice; it is not
\* invoked while the connection's task starts or the connection serves.
C6_CloseExactlyOnce ==
  \A c \in DOMAIN conns :
    conns[c].kind = "file" =>
      /\ conns[c].closes <= 1
      /\ conns[c].state \in Starting \cup {"Alive"} => conns[c].closes = 0
      /\ conns[c].state \notin Starting \cup {"Alive"} =>
           conns[c].closes = 1 /\ ~conns[c].open

\* A file connection ended by an explicit Close, its file closed once.
C6_Witness ==
  /\ last.req.kind = "Close"
  /\ last.conn # 0
  /\ conns[last.conn].kind = "file"
  /\ conns[last.conn].state = "Closed"
  /\ conns[last.conn].closes = 1

\* C7: each file connection has its own seek position: a connection made by
\* Clone starts at 0 wherever its parent is, and a seek position changes only
\* when a Read, Write or Seek of that same connection completes.
C7_IndependentSeek ==
  [][\A d \in DOMAIN conns :
       /\ (conns[d].kind = "none" /\ conns'[d].kind = "file") => conns'[d].seek = 0
       /\ (conns[d].state \in Starting /\ conns'[d].state = "Alive") => conns'[d].seek = 0
       /\ (conns[d].kind = "file" /\ conns'[d].seek # conns[d].seek) =>
            /\ conns[d].inflight.kind \in {"Read", "Write", "Seek"}
            /\ conns'[d].inflight = NoReq
    ]_vars

\* The connection a Clone on a file connection made came to serve at 0
\* while the connection cloned was further on.
C7_Witness ==
  /\ last.req.kind = "Start"
  /\ last.created # 0
  /\ conns[last.created].state = "Alive"
  /\ conns[last.created].parent # 0
  /\ conns[conns[last.created].parent].kind = "file"
  /\ conns[conns[last.created].parent].seek > 0
  /\ conns[last.created].seek = 0

\* C8: Closed is terminal for a directory connection.  A Close, which is
\* answered OK, a message that does not decode and a handler that returns an
\* error each end the serving loop, and a connection whose loop ended never
\* has a request dispatched or answered again.
C8_ClosedIsTerminal ==
  [][\A c \in DOMAIN conns :
       conns[c].kind = "dir" =>
         /\ conns[c].state = "Closed" =>
              /\ [conns'[c] EXCEPT !.peer = conns[c].peer] = conns[c]
              /\ last'.conn = c => last' = last
         /\ (conns[c].inflight.kind = "Close" /\ conns'[c].inflight = NoReq) =>
              /\ conns'[c].state = "Closed"
              /\ last'.conn = c /\ last'.resp = "OK"
         /\ (conns[c].inflight # NoReq /\ conns'[c].inflight = NoReq /\ last'.err) =>
              conns'[c].state = "Closed"
         /\ (/\ conns[c].queue # <<>>
             /\ conns'[c].queue = Tail(conns[c].queue)
             /\ Head(conns[c].queue).kind = "Garbage") =>
              conns'[c].state = "Closed"
    ]_vars

\* A directory connection that answered a Close with OK and is Closed, with
\* a later request of its client left unread.
C8_Witness ==
  /\ last.req.kind = "Close" /\ last.resp = "OK" /\ ~last.err
  /\ last.conn # 0
  /\ conns[last.conn].kind = "dir"
  /\ conns[last.conn].state = "Closed"
  /\ conns[last.conn].queue # <<>>

\* An Open or a Clone that cannot succeed whatever the server end is: an
\* Open of the empty path or of "/", and a request for rights the connection
\* does not hold.
Refused(self, req) ==
  \/ req.kind = "Open" /\ req.path \in {"", "/"}
  \/ /\ req.flags \cap CLONE_FLAG_SAME_RIGHTS = {}
     /\ ~(Rights(req.flags) \subseteq Rights(self.flags))

\* C9: an Open or a Clone never closes or changes the directory connection it
\* was received on: the connection stays Alive with its flags and its cursor,
\* nothing is answered on it, and a failure (a malformed path, a rights
\* escalation, invalid flags) is reported on the new connection's server end.
C9_OpenCloneLeaveReceiver ==
  [][\A c \in DOMAIN conns :
       (/\ conns[c].kind = "dir"
        /\ conns[c].inflight.kind \in {"Open", "Clone"}
        /\ conns'[c].inflight = NoReq) =>
         /\ conns'[c].state = "Alive"
         /\ conns'[c].flags = conns[c].flags
         /\ conns'[c].seek = conns[c].seek
         /\ last'.conn = c /\ last'.resp = "NONE" /\ ~last'.err
         /\ Refused(conns[c], conns[c].inflight) =>
              /\ last'.created = 0
              /\ last'.onopen \notin {"NONE", "OK"}
              /\ (conns[c].inflight.kind = "Open" /\ conns[c].inflight.path \in {"", "/"})
                   => last'.onopen = "BAD_PATH"
    ]_vars

\* An Open that asked for more rights than its connection has: refused on
\* the new server end, the connection it came on still Alive.
C9_Witness ==
  /\ last.req.kind = "Open"
  /\ last.created = 0
  /\ last.onopen = "ACCESS_DENIED"
  /\ last.conn # 0
  /\ conns[last.conn].kind = "dir"
  /\ conns[last.conn].state = "Alive"

\* C10: on a mutable directory connection without OPEN_RIGHT_WRITABLE each of
\* Unlink, GetToken and Rename is answered ACCESS_DENIED before anything else
\* happens: the directory's unlink, the token registry (get_token,
\* get_container) and the filesystem's rename are not called, so no
\* directory lock is taken.
C10_WriteGate ==
  (/\ last.conn # 0
   /\ conns[last.conn].kind = "dir"
   /\ last.req.kind \in {"Unlink", "GetToken", "Rename"}
   /\ conns[last.conn].flags \cap OPEN_RIGHT_WRITABLE = {}) =>
    /\ last.resp = "ACCESS_DENIED"
    /\ last.calls = <<>>
    /\ \A d \in Dirs : lock[d] = 0

\* A Rename refused on a read-only connection.
C10_Witness ==
  /\ last.conn # 0
  /\ conns[last.conn].kind = "dir"
  /\ last.req.kind = "Rename"
  /\ conns[last.conn].flags \cap OPEN_RIGHT_WRITABLE = {}
  /\ last.resp = "ACCESS_DENIED"
(***************************************************************************)
(* Properties of Unlink, Rename, Link and GetToken                         *)
(***************************************************************************)
\* The handler of the given kinds of request has just ended on a directory
\* connection.
Handled(kinds) ==
  /\ last.conn # 0
  /\ conns[last.conn].kind = "dir"
  /\ last.req.kind \in kinds

RootPaths == {"/", "", ".", "./"}

\* C11 (as stated): an Unlink request whose path is "/", "", "." or "./"
\* fails with BAD_PATH and the directory's unlink is not invoked.
C11_UnlinkRootPath ==
  (Handled({"Unlink"}) /\ last.req.path \in RootPaths) =>
    /\ last.resp = "BAD_PATH"
    /\ last.calls = <<>>

\* C11 (amended): an Unlink request whose path is "/", "", "." or "./" never
\* invokes the directory's unlink; it fails with BAD_PATH on a connection
\* that holds OPEN_RIGHT_WRITABLE and with ACCESS_DENIED on one that does not.
C11_UnlinkRootPathByRights ==
  (Handled({"Unlink"}) /\ last.req.path \in RootPaths) =>
    /\ last.calls = <<>>
    /\ last.resp = IF conns[last.conn].flags \cap OPEN_RIGHT_WRITABLE # {}
                   THEN "BAD_PATH" ELSE "ACCESS_DENIED"

\* An Unlink of "./" refused with BAD_PATH on a writable connection.
C11_Witness ==
  /\ Handled({"Unlink"})
  /\ last.req.path = "./"
  /\ conns[last.conn].flags \cap OPEN_RIGHT_WRITABLE # {}
  /\ last.resp = "BAD_PATH"
\* In this step the handler of a request of the given kinds ends on
\* directory connection c.
Handles(c, kinds) ==
  /\ conns[c].kind = "dir"
  /\ conns[c].inflight.kind \in kinds
  /\ conns'[c].inflight = NoReq

\* The number of times a call occurs among the given calls.
Count(calls, name) == Cardinality({i \in DOMAIN calls : calls[i] = name})

\* The connection holds OPEN_RIGHT_WRITABLE.
Writable(self) == self.flags \cap OPEN_RIGHT_WRITABLE # {}

\* C12 (as stated): on a writable mutable directory connection whose scope
\* has a token registry, Rename answers NOT_FOUND when the token resolves to
\* no directory, and otherwise calls the filesystem's rename exactly once
\* with (this connection's directory, src, the token's directory, dst) and
\* returns its status verbatim; the connection stays Alive in every case (a
\* response that cannot be sent is a transport error, which ends any
\* connection).
C12_RenameByToken ==
  [][\A c \in DOMAIN conns :
       (Handles(c, {"Rename"}) /\ Writable(conns[c]) /\ scope.registry) =>
         /\ IF last'.calls = <<"get_container">> /\ last'.ret = "NONE"
            THEN last'.resp = "NOT_FOUND"
            ELSE /\ Count(last'.calls, "rename") = 1
                 /\ last'.args = <<conns[c].node, conns[c].inflight.path,
                                   conns[c].inflight.n, conns[c].inflight.dst>>
                 /\ last'.resp = last'.ret
         /\ ~last'.err => conns'[c].state = "Alive"
    ]_vars

\* C12 (amended): on a writable mutable directory connection whose scope has
\* a token registry, Rename answers the lookup's status when the registry's
\* lookup of the token fails, NOT_FOUND when the lookup finds no directory
\* for the token, and otherwise calls the filesystem's rename exactly once
\* with (this connection's directory, src, the token's directory, dst) and
\* returns its status verbatim; rename is not called in the first two cases
\* and the connection stays Alive in every case (a response that cannot be
\* sent is a transport error, which ends any connection).
C12_RenameByTokenOrLookupStatus ==
  [][\A c \in DOMAIN conns :
       (Handles(c, {"Rename"}) /\ Writable(conns[c]) /\ scope.registry) =>
         /\ CASE last'.calls = <<"get_container">> /\ last'.ret # "NONE" ->
                    last'.resp = last'.ret
               [] last'.calls = <<"get_container">> /\ last'.ret = "NONE" ->
                    last'.resp = "NOT_FOUND" /\ conns[c].inflight.n \notin tokens
               [] OTHER ->
                    /\ conns[c].inflight.n \in tokens
                    /\ last'.calls = <<"get_container", "rename">>
                    /\ Count(last'.calls, "rename") = 1
                    /\ last'.args = <<conns[c].node, conns[c].inflight.path,
                                      conns[c].inflight.n, conns[c].inflight.dst>>
                    /\ last'.resp = last'.ret
         /\ ~last'.err => conns'[c].state = "Alive"
    ]_vars

\* A Rename from RootDir into SubDir, by a token minted for SubDir, whose
\* failure in the filesystem is answered as it is.
C12_Witness ==
  /\ Handled({"Rename"})
  /\ last.args = <<RootDir, "x", SubDir, "y">>
  /\ last.resp = "IO"
  /\ ~last.err
  /\ conns[last.conn].state = "Alive"
\* The phases of a Link, in the order of handle_link.
LinkPhases == <<"get_entry", "can_hardlink", "get_container", "link">>

\* C13: Link performs its phases in a fixed order - get_entry(src) on the
\* connection's directory, the can_hardlink check, the token lookup of the
\* destination, the destination's link - and stops at the first failing
\* phase with that phase's status (the get_entry status, NOT_FILE, the lookup
\* status or NOT_FOUND, the link status); link is invoked at most once and
\* only after every earlier phase succeeded, and the connection stays Alive
\* with its flags and cursor unchanged (without a token registry no phase
\* runs; a response that cannot be sent is a transport error, which ends any
\* connection).
C13_LinkPhases ==
  [][\A c \in DOMAIN conns :
       Handles(c, {"Link"}) =>
         LET req   == conns[c].inflight
             entry == get_entry(conns[c].node, req.path)
             done  == last'.calls
         IN  /\ done = SubSeq(LinkPhases, 1, Len(done))
             /\ Count(done, "link") <= 1
             /\ done = <<>> <=> ~scope.registry
             /\ Len(done) = 1 <=> (scope.registry /\ entry = NoNode)
             /\ Len(done) = 1 => last'.resp = last'.ret /\ last'.ret # "OK"
             /\ Len(done) = 2 <=> (scope.registry /\ entry # NoNode /\ ~can_hardlink(entry))
             /\ Len(done) = 2 => last'.resp = "NOT_FILE"
             /\ Len(done) = 3 =>
                  /\ last'.resp = IF last'.ret # "NONE" THEN last'.ret ELSE "NOT_FOUND"
                  /\ last'.resp # "OK"
                  /\ last'.ret = "NONE" => req.n \notin tokens
             /\ Len(done) = 4 =>
                  /\ req.n \in tokens
                  /\ last'.args = <<req.n, req.dst, entry>>
                  /\ last'.resp = last'.ret
             /\ ~last'.err => conns'[c].state = "Alive"
             /\ conns'[c].flags = conns[c].flags
             /\ conns'[c].seek = conns[c].seek
    ]_vars

\* A Link of RootDir's file into SubDir that went through all four phases.
C13_Witness ==
  /\ Handled({"Link"})
  /\ last.calls = LinkPhases
  /\ last.args = <<SubDir, "y", FileNode>>
  /\ last.resp = "OK"
  /\ conns[last.conn].state = "Alive"
\* C14 (as stated): when the execution scope exposes no token registry, Link
\* and GetToken fail with NOT_SUPPORTED unconditionally, whatever the
\* connection's rights and the request's arguments.
C14_NoRegistryNotSupported ==
  (Handled({"Link", "GetToken"}) /\ ~scope.registry) =>
    last.resp = "NOT_SUPPORTED"

\* C14 (amended): when the execution scope exposes no token registry, Link
\* fails with NOT_SUPPORTED whatever the connection's rights and the
\* request's arguments, and GetToken fails with NOT_SUPPORTED on a connection
\* that holds OPEN_RIGHT_WRITABLE and with ACCESS_DENIED on one that does
\* not; neither makes a call and no token is minted.
C14_NoRegistryNotSupportedBehindGate ==
  (Handled({"Link", "GetToken"}) /\ ~scope.registry) =>
    /\ last.resp = IF last.req.kind = "GetToken" /\ ~Writable(conns[last.conn])
                   THEN "ACCESS_DENIED" ELSE "NOT_SUPPORTED"
    /\ last.calls = <<>>
    /\ tokens = {}

\* A GetToken on a writable connection refused for want of a registry.
C14_Witness ==
  /\ Handled({"GetToken"})
  /\ ~scope.registry
  /\ Writable(conns[last.conn])
  /\ last.resp = "NOT_SUPPORTED"
(***************************************************************************)
(* Properties of the file connection's requests                            *)
(***************************************************************************)
\* In this step the handler of a request of the given kinds ends on file
\* connection c.
FileHandles(c, kinds) ==
  /\ conns[c].kind = "file"
  /\ conns[c].inflight.kind \in kinds
  /\ conns'[c].inflight = NoReq

Readable(self) == self.flags \cap OPEN_RIGHT_READABLE # {}

ReadKinds  == {"Read", "ReadAt"}
WriteKinds == {"Write", "WriteAt", "Truncate", "Resize", "SetAttr"}

\* The request of connection c that is being handled is refused for want of
\* a right, or for its count.
RefusedForRights(c) ==
  \/ conns[c].inflight.kind \in ReadKinds /\ ~Readable(conns[c])
  \/ conns[c].inflight.kind \in WriteKinds /\ ~Writable(conns[c])

RefusedForCount(c) ==
  /\ conns[c].inflight.kind \in ReadKinds
  /\ Readable(conns[c])
  /\ conns[c].inflight.n > MAX_BUF

\* C15: on a file connection Read and ReadAt without OPEN_RIGHT_READABLE and
\* Write, WriteAt, Truncate, Resize and SetAttr without OPEN_RIGHT_WRITABLE
\* are answered BAD_HANDLE, and a Read or ReadAt whose count exceeds the
\* maximum transfer size is answered OUT_OF_RANGE, the rights check coming
\* first; in each of these cases the backing file is not called, the seek is
\* unchanged and the connection stays Alive, ready for its next request (a
\* response that cannot be sent is a transport error, which ends any
\* connection).
C15_RefusedBeforeBackingFile ==
  [][\A c \in DOMAIN conns :
       (FileHandles(c, ReadKinds \cup WriteKinds)
          /\ (RefusedForRights(c) \/ RefusedForCount(c))) =>
         /\ last'.conn = c
         /\ last'.resp = IF RefusedForRights(c) THEN "BAD_HANDLE" ELSE "OUT_OF_RANGE"
         /\ last'.calls = <<>>
         /\ conns'[c].seek = conns[c].seek
         /\ conns'[c].flags = conns[c].flags
         /\ ~last'.err => (conns'[c].state = "Alive" /\ conns'[c].queue = conns[c].queue)
    ]_vars

\* A Read of more than the maximum transfer size refused on a readable
\* connection that had moved its seek before and goes on serving.
C15_Witness ==
  /\ last.conn # 0
  /\ conns[last.conn].kind = "file"
  /\ last.req.kind = "Read"
  /\ last.req.n > MAX_BUF
  /\ last.resp = "OUT_OF_RANGE"
  /\ conns[last.conn].seek = 5
  /\ conns[last.conn].state = "Alive"
\* C16: a Read that succeeds reads at the connection's stored seek and then
\* advances the seek by the number of bytes the backing file reported, and
\* so does a Write that succeeds on a connection without OPEN_FLAG_APPEND
\* (write_at at the stored seek, the seek advanced by the bytes written);
\* a Read or a Write that fails leaves the seek as it was.
C16_SeekAdvancesByTransferred ==
  [][\A c \in DOMAIN conns :
       /\ (FileHandles(c, {"Read"}) /\ last'.resp = "OK" /\ ~last'.err) =>
            /\ last'.calls = <<"read_at">>
            /\ last'.args = <<conns[c].seek, conns[c].inflight.n>>
            /\ conns'[c].seek = conns[c].seek + last'.got[1]
       /\ (FileHandles(c, {"Write"}) /\ last'.resp = "OK"
             /\ conns[c].flags \cap OPEN_FLAG_APPEND = {}) =>
            /\ last'.calls = <<"write_at">>
            /\ last'.args = <<conns[c].seek, conns[c].inflight.n>>
            /\ conns'[c].seek = conns[c].seek + last'.got[1]
       /\ (FileHandles(c, {"Read", "Write"}) /\ last'.resp # "OK") =>
            conns'[c].seek = conns[c].seek
    ]_vars

\* A Read of two bytes at seek 5 of which the backing file returned one.
C16_Witness ==
  /\ last.conn # 0
  /\ conns[last.conn].kind = "file"
  /\ last.req.kind = "Read"
  /\ last.req.n = 2
  /\ last.resp = "OK"
  /\ ~last.err
  /\ last.args = <<5, 2>>
  /\ last.got = <<1>>
  /\ conns[last.conn].seek = 6
\* C17: on a connection whose flags contain OPEN_FLAG_APPEND a Write that
\* succeeds calls the backing file's append and nothing else, passes it no
\* offset, and the seek becomes the end offset append reported, whatever it
\* was before: with a file of size 256 and 13 bytes of data it becomes 269.
C17_AppendSetsSeekToEnd ==
  [][\A c \in DOMAIN conns :
       (FileHandles(c, {"Write"}) /\ last'.resp = "OK"
          /\ conns[c].flags \cap OPEN_FLAG_APPEND # {}) =>
         /\ last'.calls = <<"append">>
         /\ last'.args = <<conns[c].inflight.n>>
         /\ conns'[c].seek = last'.got[2]
         /\ (last'.got = <<13, MOCK_FILE_SIZE + 13>>) => conns'[c].seek = 269
    ]_vars

\* An appending Write of 13 bytes to the file of size 256: the seek is 269.
C17_Witness ==
  /\ last.conn # 0
  /\ conns[last.conn].kind = "file"
  /\ conns[last.conn].flags \cap OPEN_FLAG_APPEND # {}
  /\ last.req.kind = "Write"
  /\ last.req.n = 13
  /\ last.resp = "OK"
  /\ last.calls = <<"append">>
  /\ last.got = <<13, 269>>
  /\ conns[last.conn].seek = 269
\* The position the Seek that connection c is handling asks for: its offset
\* from 0 (Start), from the stored seek (Current) or from the size the
\* backing file reports in this step (End).
SeekTarget(c) ==
  conns[c].inflight.n
    + (CASE conns[c].inflight.origin = "Start"   -> 0
         [] conns[c].inflight.origin = "Current" -> conns[c].seek
         [] conns[c].inflight.origin = "End"     -> last'.got[1])

\* The size of the backing file is known in this step of a Seek from End.
SizeKnown(c) == conns[c].inflight.origin = "End" => last'.got # <<>>

\* For the Seek that connection c is handling: a negative target is answered
\* OUT_OF_RANGE and leaves the seek, any other target becomes the seek.
SeekMovesToTarget(c) ==
  IF SeekTarget(c) < 0
  THEN last'.resp = "OUT_OF_RANGE" /\ conns'[c].seek = conns[c].seek
  ELSE last'.resp = "OK" /\ conns'[c].seek = SeekTarget(c)

\* C18 as stated: every Seek on a file connection computes base + offset
\* (base 0 for Start, the stored seek for Current, the backing file's size
\* for End), answers OUT_OF_RANGE and leaves the seek when that is negative,
\* and stores it as the seek otherwise.
C18_SeekMovesToTarget ==
  [][\A c \in DOMAIN conns :
       (FileHandles(c, {"Seek"}) /\ SizeKnown(c)) => SeekMovesToTarget(c)
    ]_vars

\* C18, amended: on a file connection without OPEN_FLAG_NODE_REFERENCE a
\* Seek computes base + offset (base 0 for Start, the stored seek for
\* Current, the backing file's size for End), answers OUT_OF_RANGE and
\* leaves the seek when that is negative, and stores it as the seek
\* otherwise (Seek(End, -4) on the file of size 256 gives 252,
\* Seek(Current, -4) at seek 0 fails and leaves 0); a Seek from End whose
\* backing file cannot tell its size answers the status of get_size and
\* leaves the seek; on a connection with OPEN_FLAG_NODE_REFERENCE every
\* Seek answers BAD_HANDLE, asks the backing file nothing and leaves the
\* seek.
C18_SeekMovesToTargetUnlessRefused ==
  [][\A c \in DOMAIN conns :
       FileHandles(c, {"Seek"}) =>
         IF conns[c].flags \cap OPEN_FLAG_NODE_REFERENCE # {}
         THEN /\ last'.resp = "BAD_HANDLE"
              /\ last'.calls = <<>>
              /\ conns'[c].seek = conns[c].seek
         ELSE /\ last'.calls = IF conns[c].inflight.origin = "End"
                                THEN <<"get_size">> ELSE <<>>
              /\ IF SizeKnown(c)
                 THEN /\ SeekMovesToTarget(c)
                      /\ (conns[c].inflight.origin = "End" /\ conns[c].inflight.n = -4
                            /\ last'.got = <<256>>) => conns'[c].seek = 252
                      /\ (conns[c].inflight.origin = "Current" /\ conns[c].inflight.n = -4
                            /\ conns[c].seek = 0) =>
                           (last'.resp = "OUT_OF_RANGE" /\ conns'[c].seek = 0)
                 ELSE /\ last'.resp \notin {"OK", "OUT_OF_RANGE"}
                      /\ conns'[c].seek = conns[c].seek
    ]_vars

\* Seek(End, -4) on the file of size 256 has moved the seek to 252.
C18_Witness ==
  /\ last.conn # 0
  /\ conns[last.conn].kind = "file"
  /\ conns[last.conn].flags \cap OPEN_FLAG_NODE_REFERENCE = {}
  /\ last.req.kind = "Seek"
  /\ last.req.origin = "End"
  /\ last.req.n = -4
  /\ last.resp = "OK"
  /\ last.got = <<MOCK_FILE_SIZE>>
  /\ conns[last.conn].seek = 252
\* C19: whatever requests a file connection serves, its flags other than
\* OPEN_FLAG_APPEND stay what they were when it was opened; SetFlags makes
\* the APPEND bit the one of its argument and touches no other bit; and
\* GetFlags reports the stored flags restricted to the visible ones, which
\* never include OPEN_FLAG_TRUNCATE: on a connection opened with READABLE,
\* WRITABLE and TRUNCATE it reports READABLE and WRITABLE.
C19_OnlyAppendMutable ==
  [][\A c \in DOMAIN conns :
       /\ (conns[c].kind = "file" /\ conns'[c].kind = "file") =>
            conns'[c].flags \ OPEN_FLAG_APPEND = conns[c].flags \ OPEN_FLAG_APPEND
       /\ FileHandles(c, {"SetFlags"}) =>
            /\ last'.resp = "OK"
            /\ conns'[c].flags \cap OPEN_FLAG_APPEND
                 = conns[c].inflight.flags \cap OPEN_FLAG_APPEND
       /\ FileHandles(c, {"GetFlags"}) =>
            /\ last'.resp = "OK"
            /\ last'.got = <<conns[c].flags \cap GET_FLAGS_VISIBLE>>
            /\ last'.got[1] \cap OPEN_FLAG_TRUNCATE = {}
            /\ conns[c].flags = RW_ \cup OPEN_FLAG_TRUNCATE => last'.got = <<RW_>>
            /\ conns'[c].flags = conns[c].flags
    ]_vars

\* GetFlags on the connection opened with READABLE, WRITABLE and TRUNCATE
\* has reported READABLE and WRITABLE.
C19_Witness ==
  /\ last.conn # 0
  /\ conns[last.conn].kind = "file"
  /\ conns[last.conn].flags = RW_ \cup OPEN_FLAG_TRUNCATE
  /\ last.req.kind = "GetFlags"
  /\ last.resp = "OK"
  /\ last.got = <<RW_>>
  /\ sent >= 2
\* The serving task of file connection c is between two requests.
Waiting(c) ==
  conns[c].kind = "file" /\ conns[c].state = "Alive" /\ conns[c].inflight = NoReq

\* The serving task of file connection c is inside a handler.
Handling(c) ==
  conns[c].kind = "file" /\ conns[c].state = "Alive" /\ conns[c].inflight # NoReq

\* C20 as stated: once the scope's shutdown signal has fired, a file
\* connection's task that waits for its next request takes no further
\* request and exits; a handler that had started is left to return.
C20_ShutdownHandlesNoFurtherRequest ==
  /\ [][\A c \in DOMAIN conns :
          /\ (scope.shutdown /\ Waiting(c)) => ~Handling(c)'
          /\ (scope.shutdown /\ Handling(c) /\ conns'[c].inflight # NoReq) =>
               /\ conns'[c].state = "Alive"
               /\ conns'[c].inflight = conns[c].inflight
     ]_vars
  /\ \A c \in ConnIds : (scope.shutdown /\ Waiting(c)) ~> (conns[c].state # "Alive")

\* C20, amended: the select! at the top of the serving loop takes one of its
\* branches that are ready.  Once the scope's shutdown signal has fired, the
\* task of a file connection that waits for its next request exits at that
\* wait unless a request is readable on its channel; a request that is
\* readable may be taken first, the oldest one, and is handled to its end,
\* after which the task is at the select! again.  A task that runs with the
\* signal fired and nothing to read exits.  The exit drops the connection
\* without a response, releases the backing file and leaves the channel as
\* it is; after the exit the task handles no request, whatever is left in
\* the channel.  A handler that had started when the signal fired is not
\* interrupted: the connection is left alone until the handler has returned
\* and answered.  A client sends finitely many requests, so the task does
\* exit.
C20_ShutdownExitsBetweenRequests ==
  /\ [][\A c \in DOMAIN conns :
          /\ (Waiting(c) /\ conns'[c].state # "Alive" /\ conns'[c].inflight = NoReq
                /\ last' = last) =>
               /\ conns'[c].state = "Dropped"
               /\ ~conns'[c].open
               /\ conns'[c].queue = conns[c].queue
          /\ (scope.shutdown /\ Waiting(c) /\ Handling(c)') =>
               /\ conns[c].queue # <<>>
               /\ conns'[c].inflight = Head(conns[c].queue)
               /\ conns'[c].queue = Tail(conns[c].queue)
          /\ (scope.shutdown /\ Waiting(c) /\ conns[c].queue = <<>>
                /\ conns'[c] # conns[c]) =>
               \/ conns'[c].state = "Dropped" /\ ~conns'[c].open
               \/ conns'[c] = [conns[c] EXCEPT !.queue = conns'[c].queue,
                                               !.peer = conns'[c].peer]
          /\ (conns[c].kind = "file" /\ conns[c].state # "Alive") =>
               /\ conns'[c].state = conns[c].state
               /\ conns'[c].inflight = NoReq
               /\ conns'[c].queue = conns[c].queue
               /\ conns'[c].seek = conns[c].seek
               /\ (last' = last \/ last'.conn # c)
          /\ (Handling(c) /\ scope.shutdown) =>
               \/ /\ conns'[c].state = "Alive"
                  /\ conns'[c].inflight = conns[c].inflight
                  /\ conns'[c].seek = conns[c].seek
                  /\ conns'[c].open = conns[c].open
               \/ /\ conns'[c].inflight = NoReq
                  /\ last'.conn = c
                  /\ last'.req = conns[c].inflight
                  /\ ~last'.err => conns'[c].state = "Alive"
     ]_vars
  /\ \A c \in ConnIds : (scope.shutdown /\ Waiting(c)) ~> (conns[c].state # "Alive")
  /\ \A c \in ConnIds : (scope.shutdown /\ Handling(c)) ~> (last.conn = c /\ ~Handling(c))

\* The task has left on the signal: the connection is Dropped and its file
\* released although its client is there and a request is still unread.
C20_Witness ==
  /\ scope.shutdown
  /\ conns[1].kind = "file"
  /\ conns[1].state = "Dropped"
  /\ ~conns[1].open
  /\ conns[1].peer
  /\ conns[1].queue # <<>>
  /\ conns[1].inflight = NoReq
(***************************************************************************)
(* Properties of the flag functions                                        *)
(***************************************************************************)
\* C25: new_connection_validate_flags is idempotent on its own output: when
\* validating flags f returns Ok(g), validating g returns Ok(g).
C25_ValidateIdempotent ==
  cc.pc = "again" => (cc.again.ok /\ cc.again.val = cc.res.val)

\* Flags that the function changed (a right expanded from a POSIX flag,
\* OPEN_FLAG_DIRECTORY cleared) and whose result it then left alone.
C25_Witness ==
  /\ cc.pc = "again"
  /\ cc.flags = OPEN_RIGHT_READABLE \cup OPEN_FLAG_DIRECTORY \cup OPEN_FLAG_POSIX_WRITABLE
  /\ cc.res.val = OPEN_RIGHT_READABLE \cup OPEN_RIGHT_WRITABLE
  /\ cc.again = Ok(cc.res.val)
\* The flags of the call are rejected with the given status.
Rejected(status) == cc.res = Err(status)

\* C26 as stated: a flag set with OPEN_FLAG_NOT_DIRECTORY fails with
\* NOT_FILE; otherwise one without NODE_REFERENCE that contains APPEND or
\* TRUNCATE fails with INVALID_ARGS; otherwise one that contains any bit
\* outside the allow-list fails with NOT_SUPPORTED.
C26_RejectionOrder ==
  cc.pc = "out" =>
    IF cc.flags \cap OPEN_FLAG_NOT_DIRECTORY # {} THEN Rejected("NOT_FILE")
    ELSE IF /\ cc.flags \cap OPEN_FLAG_NODE_REFERENCE = {}
            /\ cc.flags \cap ncvf_prohibited_flags # {}
    THEN Rejected("INVALID_ARGS")
    ELSE (cc.flags \ ncvf_allowed_flags # {}) => Rejected("NOT_SUPPORTED")

\* C26, amended: a flag set with OPEN_FLAG_NOT_DIRECTORY fails with NOT_FILE
\* (also when NODE_REFERENCE is set); otherwise one without NODE_REFERENCE
\* that contains APPEND or TRUNCATE fails with INVALID_ARGS; otherwise one
\* without NODE_REFERENCE that contains a bit outside the allow-list other
\* than the three POSIX flags fails with NOT_SUPPORTED.  The POSIX flags are
\* expanded into rights, and with NODE_REFERENCE the bits outside the
\* allow-list are stripped: neither is rejected.
C26_RejectionOrderOfKeptFlags ==
  cc.pc = "out" =>
    IF cc.flags \cap OPEN_FLAG_NOT_DIRECTORY # {} THEN Rejected("NOT_FILE")
    ELSE IF /\ cc.flags \cap OPEN_FLAG_NODE_REFERENCE = {}
            /\ cc.flags \cap ncvf_prohibited_flags # {}
    THEN Rejected("INVALID_ARGS")
    ELSE IF /\ cc.flags \cap OPEN_FLAG_NODE_REFERENCE = {}
            /\ cc.flags \ (ncvf_allowed_flags \cup POSIX_FLAGS) # {}
    THEN Rejected("NOT_SUPPORTED")
    ELSE cc.res.ok

\* Flags that all three rejections apply to are rejected by the first.
C26_Witness ==
  /\ cc.pc = "out"
  /\ cc.flags = OPEN_FLAG_NOT_DIRECTORY \cup OPEN_FLAG_APPEND \cup OPEN_FLAG_NO_REMOTE
  /\ Rejected("NOT_FILE")
\* C27: for flags with OPEN_FLAG_NODE_REFERENCE set and
\* OPEN_FLAG_NOT_DIRECTORY clear, new_connection_validate_flags succeeds
\* and returns exactly the NODE_REFERENCE and DESCRIBE bits of its input:
\* every other bit is stripped, none is rejected.
C27_NodeReferenceStrips ==
  (/\ cc.pc = "out"
   /\ cc.flags \cap OPEN_FLAG_NODE_REFERENCE # {}
   /\ cc.flags \cap OPEN_FLAG_NOT_DIRECTORY = {}) =>
     cc.res = Ok(cc.flags \cap (OPEN_FLAG_NODE_REFERENCE \cup OPEN_FLAG_DESCRIBE))

\* A node reference asked for with rights, DIRECTORY, CREATE, APPEND,
\* TRUNCATE, a POSIX flag and DESCRIBE keeps NODE_REFERENCE and DESCRIBE.
C27_Witness ==
  /\ cc.pc = "out"
  /\ cc.flags = OPEN_FLAG_NODE_REFERENCE \cup OPEN_FLAG_DESCRIBE \cup FS_RIGHTS
                  \cup OPEN_FLAG_DIRECTORY \cup OPEN_FLAG_CREATE \cup OPEN_FLAG_APPEND
                  \cup OPEN_FLAG_TRUNCATE \cup OPEN_FLAG_POSIX_DEPRECATED
  /\ cc.res = Ok(OPEN_FLAG_NODE_REFERENCE \cup OPEN_FLAG_DESCRIBE)

PosixInputBits == OPEN_RIGHT_READABLE \cup POSIX_FLAGS

\* C28: for flags built from READABLE and the three POSIX flags,
\* new_connection_validate_flags returns Ok with no POSIX flag in the
\* result, WRITABLE set iff POSIX_DEPRECATED or POSIX_WRITABLE was set,
\* EXECUTABLE set iff POSIX_DEPRECATED or POSIX_EXECUTABLE was set, and
\* READABLE as in the input.
C28_PosixExpandsToRights ==
  (cc.pc = "out" /\ cc.flags \subseteq PosixInputBits) =>
    /\ cc.res.ok
    /\ cc.res.val \cap POSIX_FLAGS = {}
    /\ (OPEN_RIGHT_WRITABLE \subseteq cc.res.val)
         <=> (cc.flags \cap (OPEN_FLAG_POSIX_DEPRECATED \cup OPEN_FLAG_POSIX_WRITABLE) # {})
    /\ (OPEN_RIGHT_EXECUTABLE \subseteq cc.res.val)
         <=> (cc.flags \cap (OPEN_FLAG_POSIX_DEPRECATED \cup OPEN_FLAG_POSIX_EXECUTABLE) # {})
    /\ cc.res.val \cap OPEN_RIGHT_READABLE = cc.flags \cap OPEN_RIGHT_READABLE
    /\ cc.res.val \subseteq FS_RIGHTS

\* READABLE with the deprecated POSIX flag became all three rights.
C28_Witness ==
  /\ cc.pc = "out"
  /\ cc.flags = OPEN_RIGHT_READABLE \cup OPEN_FLAG_POSIX_DEPRECATED
  /\ cc.res = Ok(FS_RIGHTS)
\* The flags and the mode of the call pass the tests that come before the
\* test of OPEN_FLAG_CREATE against the parent's rights.
WellFormed ==
  LET mode_type == cc.mode \cap MODE_TYPE_MASK
  IN  /\ ~(mode_type # {} /\ cc.flags \cap OPEN_FLAG_DIRECTORY # {}
              /\ mode_type # MODE_TYPE_DIRECTORY)
      /\ ~(mode_type = MODE_TYPE_DIRECTORY /\ cc.flags \cap OPEN_FLAG_NOT_DIRECTORY # {})
      /\ ~((OPEN_FLAG_DIRECTORY \cup OPEN_FLAG_NOT_DIRECTORY) \subseteq cc.flags)
      /\ ~(cc.flags \cap OPEN_FLAG_CREATE_IF_ABSENT # {} /\ cc.flags \cap OPEN_FLAG_CREATE = {})
      /\ cc.flags \cap CLONE_FLAG_SAME_RIGHTS = {}

\* C29: check_child_connection_flags fails with INVALID_ARGS whenever the
\* flags contain CREATE_IF_ABSENT without CREATE, whatever the parent's
\* rights; it fails with ACCESS_DENIED whenever flags that are well-formed
\* otherwise contain CREATE and the parent lacks OPEN_RIGHT_WRITABLE; with a
\* writable parent CREATE and CREATE with CREATE_IF_ABSENT are accepted,
\* alone or with rights the parent has.
C29_CreateNeedsWritableParent ==
  cc.pc = "out" =>
    /\ (cc.flags \cap OPEN_FLAG_CREATE_IF_ABSENT # {} /\ cc.flags \cap OPEN_FLAG_CREATE = {})
         => cc.res = Err("INVALID_ARGS")
    /\ (WellFormed /\ cc.flags \cap OPEN_FLAG_CREATE # {}
          /\ cc.parent_flags \cap OPEN_RIGHT_WRITABLE = {})
         => cc.res = Err("ACCESS_DENIED")
    /\ (WellFormed /\ cc.flags \cap OPEN_FLAG_CREATE # {}
          /\ cc.parent_flags \cap OPEN_RIGHT_WRITABLE # {}
          /\ (cc.flags \cap FS_RIGHTS) \subseteq cc.parent_flags)
         => (cc.res.ok /\ cc.res.val.flags \cap (OPEN_FLAG_CREATE \cup OPEN_FLAG_CREATE_IF_ABSENT)
                           = cc.flags \cap (OPEN_FLAG_CREATE \cup OPEN_FLAG_CREATE_IF_ABSENT))

\* CREATE with CREATE_IF_ABSENT was refused on a parent that is readable and
\* executable but not writable.
C29_Witness ==
  /\ cc.pc = "out"
  /\ cc.parent_flags = OPEN_RIGHT_READABLE \cup OPEN_RIGHT_EXECUTABLE
  /\ cc.flags = OPEN_FLAG_CREATE \cup OPEN_FLAG_CREATE_IF_ABSENT \cup OPEN_RIGHT_READABLE
  /\ cc.mode = {}
  /\ cc.res = Err("ACCESS_DENIED")

\* C30: in check_child_connection_flags a POSIX flag never causes an error:
\* the call succeeds iff it succeeds on the same arguments with the POSIX
\* flags removed from the flags; the flags it returns keep POSIX_WRITABLE
\* only if the parent has WRITABLE and POSIX_EXECUTABLE only if the parent
\* has EXECUTABLE, and never contain the deprecated POSIX flag.
C30_PosixSoftFail ==
  cc.pc = "out" =>
    /\ cc.res.ok
         = check_child_connection_flags(cc.parent_flags, cc.flags \ POSIX_FLAGS, cc.mode).ok
    /\ cc.res.ok =>
         /\ (OPEN_FLAG_POSIX_WRITABLE \subseteq cc.res.val.flags)
               => (OPEN_RIGHT_WRITABLE \subseteq cc.parent_flags)
         /\ (OPEN_FLAG_POSIX_EXECUTABLE \subseteq cc.res.val.flags)
               => (OPEN_RIGHT_EXECUTABLE \subseteq cc.parent_flags)
         /\ cc.res.val.flags \cap OPEN_FLAG_POSIX_DEPRECATED = {}

\* The deprecated POSIX flag on a parent that is readable and executable:
\* the call succeeds and returns POSIX_EXECUTABLE alone.
C30_Witness ==
  /\ cc.pc = "out"
  /\ cc.parent_flags = OPEN_RIGHT_READABLE \cup OPEN_RIGHT_EXECUTABLE
  /\ cc.flags = OPEN_RIGHT_READABLE \cup OPEN_FLAG_POSIX_DEPRECATED
  /\ cc.res.ok
  /\ cc.res.val.flags = OPEN_RIGHT_READABLE \cup OPEN_FLAG_POSIX_EXECUTABLE
(***************************************************************************)
(* Properties of ReadDirents, Rewind and Watch                             *)
(***************************************************************************)
\* C21: a ReadDirents hands the connection's stored cursor to the
\* directory; when it completes with a Done the stored cursor becomes the
\* cursor the Done carries; a Rewind makes it the default cursor; and no
\* other request changes it.  So the next ReadDirents after a Done hands
\* over exactly the Done's cursor, and the next one after a Rewind the
\* default cursor.
C21_CursorCarriedOver ==
  [][\A c \in DOMAIN conns :
       /\ Handles(c, {"ReadDirents"}) =>
            /\ last'.calls = <<"read_dirents">>
            /\ last'.args = <<conns[c].seek, conns[c].inflight.n>>
            /\ last'.ret = "Done" =>
                 /\ last'.resp \in {"OK", "BUFFER_TOO_SMALL"}
                 /\ conns'[c].seek = last'.got[1]
       /\ Handles(c, {"Rewind"}) =>
            (last'.resp = "OK" /\ conns'[c].seek = DefaultPosition)
       /\ (conns[c].kind = "dir" /\ conns'[c].kind = "dir"
             /\ ~Handles(c, {"ReadDirents", "Rewind"})) =>
            conns'[c].seek = conns[c].seek
    ]_vars

\* A ReadDirents handed the directory cursor 1, which only the Done of an
\* earlier ReadDirents can have left, and stored the cursor 2 of its own.
C21_Witness ==
  /\ last.conn # 0
  /\ last.req.kind = "ReadDirents"
  /\ last.args = <<1, 64>>
  /\ last.ret = "Done"
  /\ last.got = <<2>>
  /\ conns[last.conn].seek = 2

\* The handler whose record this is returned the error of a send.
SendFailed(l) == l.err /\ l.resp # "NONE"

\* C22 as stated: when the directory's read_dirents hands back a sealed
\* result that is not a Done, the connection transitions to Closed and
\* attempts no response for the request.
C22_WrongVariantIsFatal ==
  [][\A c \in DOMAIN conns :
       (Handles(c, {"ReadDirents"}) /\ last'.ret = "Other") =>
         (conns'[c].state = "Closed" /\ last'.resp = "NONE")
    ]_vars

\* C22, amended: when the directory's read_dirents hands back a sealed
\* result that is not a Done, the connection answers the request with
\* NOT_SUPPORTED and stays Alive, its cursor at the default position (a
\* response that cannot be sent is a transport error, which ends any
\* connection); only a build with debug assertions stops there, panicking
\* in the debug_assert! before any response.
C22_WrongVariantAnswered ==
  [][\A c \in DOMAIN conns :
       (Handles(c, {"ReadDirents"}) /\ last'.ret = "Other") =>
         /\ last'.calls = <<"read_dirents">>
         /\ conns'[c].seek = DefaultPosition
         /\ \/ /\ last'.resp = "NOT_SUPPORTED"
               /\ ~last'.err => conns'[c].state = "Alive"
               /\ last'.err => conns'[c].state = "Closed"
            \/ /\ last'.resp = "NONE"
               /\ conns'[c].state = "Panicked"
    ]_vars

\* A sealed result that is not a Done was answered NOT_SUPPORTED and the
\* connection, which had its cursor at 2, serves on from the default one.
C22_Witness ==
  /\ last.conn # 0
  /\ last.req.kind = "ReadDirents"
  /\ last.ret = "Other"
  /\ last.args = <<2, 64>>
  /\ last.resp = "NOT_SUPPORTED"
  /\ ~last.err
  /\ conns[last.conn].state = "Alive"
  /\ conns[last.conn].seek = DefaultPosition

\* C23 as stated: a Watch never closes the directory connection: nonzero
\* options are answered INVALID_ARGS without registering a watcher, and
\* every failure, of the conversion of the watcher transport into a channel
\* or of the registration with the node, is reported as the response of the
\* Watch while the connection stays Alive.
C23_WatchNeverCloses ==
  [][\A c \in DOMAIN conns :
       Handles(c, {"Watch"}) =>
         /\ last'.resp # "NONE"
         /\ ~SendFailed(last') => conns'[c].state = "Alive"
         /\ conns[c].inflight.n # 0 => (last'.resp = "INVALID_ARGS" /\ last'.calls = <<>>)
    ]_vars

\* C23, amended: nonzero options are answered INVALID_ARGS without
\* registering a watcher, and a failure registering with the node is
\* reported as the response of the Watch; in both cases the connection
\* stays Alive (a response that cannot be sent is a transport error, which
\* ends any connection).  A watcher transport that cannot be converted into
\* a channel is returned as the handler's error: the Watch gets no
\* response, no watcher is registered and the connection is closed.
C23_WatchClosesOnlyOnConversion ==
  [][\A c \in DOMAIN conns :
       Handles(c, {"Watch"}) =>
         IF conns[c].inflight.n # 0
         THEN /\ last'.resp = "INVALID_ARGS"
              /\ last'.calls = <<>>
              /\ ~SendFailed(last') => conns'[c].state = "Alive"
         ELSE IF last'.calls = <<"register_watcher">>
         THEN /\ last'.resp = last'.ret
              /\ last'.args = <<conns[c].inflight.off>>
              /\ ~SendFailed(last') => conns'[c].state = "Alive"
         ELSE /\ last'.calls = <<>>
              /\ last'.resp = "NONE"
              /\ last'.err
              /\ conns'[c].state = "Closed"
    ]_vars

\* A Watch whose registration failed was answered with the failure and the
\* connection serves on.
C23_Witness ==
  /\ last.conn # 0
  /\ last.req.kind = "Watch"
  /\ last.req.n = 0
  /\ last.calls = <<"register_watcher">>
  /\ last.resp = "IO"
  /\ ~last.err
  /\ conns[last.conn].state = "Alive"
(***************************************************************************)
(* Properties of Clone                                                     *)
(***************************************************************************)
\* In this step the handler of a Clone ends on connection c.
Cloned(c) ==
  /\ conns[c].kind \in {"dir", "file"}
  /\ conns[c].inflight.kind = "Clone"
  /\ conns'[c].inflight = NoReq

\* In this step the task of file connection c is polled for the first time.
Starts(c) == conns[c].state = "Spawned" /\ conns'[c].state # "Spawned"

\* In this step the task that starts file connection c is polled.
Polled(c) == conns[c].state \in Starting /\ conns'[c].state # conns[c].state

\* The rights of the connection the handler of this step created: the
\* rights a directory connection serves with, the rights the task of a file
\* connection was spawned with.
CreatedRights == Rights(conns'[last'.created].flags)

\* What C24 says of every Clone but the ones with CLONE_FLAG_SAME_RIGHTS:
\* the clone is created only if the rights it asks for are among the
\* parent's, and a Clone that asks for more creates no connection and has
\* an error reported on the server end.
ExplicitRightsWithinParent(c) ==
  conns[c].inflight.flags \cap CLONE_FLAG_SAME_RIGHTS = {} =>
    IF Rights(conns[c].inflight.flags) \subseteq Rights(conns[c].flags)
    THEN last'.created # 0 => CreatedRights = Rights(conns[c].inflight.flags)
    ELSE last'.created = 0 /\ last'.onopen = "ACCESS_DENIED"

\* C24 as stated: the connection a Clone with CLONE_FLAG_SAME_RIGHTS creates
\* has the rights of the parent connection; any other Clone creates its
\* connection only if the rights it asks for are among the parent's, and
\* otherwise reports an error on the server end and creates nothing.
C24_CloneRights ==
  [][\A c \in DOMAIN conns :
       Cloned(c) =>
         /\ last'.conn = c
         /\ (conns[c].inflight.flags \cap CLONE_FLAG_SAME_RIGHTS # {} /\ last'.created # 0)
              => CreatedRights = Rights(conns[c].flags)
         /\ ExplicitRightsWithinParent(c)
    ]_vars

\* C24, amended: the connection a Clone with CLONE_FLAG_SAME_RIGHTS creates
\* has the rights of the parent connection, unless the Clone also asks for
\* OPEN_FLAG_NODE_REFERENCE, which makes a connection without rights; any
\* other Clone creates its connection only if the rights it asks for are
\* among the parent's, and otherwise reports an error on the server end
\* and creates nothing.  A directory connection has its rights when the
\* Clone has been handled; the task of a file connection is spawned with
\* the rights worked out for it, takes them at its first poll, without
\* them when it has OPEN_FLAG_NODE_REFERENCE, and keeps them until it
\* serves.
C24_CloneRightsUnlessNodeReference ==
  [][\A c \in DOMAIN conns :
       /\ Cloned(c) =>
            /\ last'.conn = c
            /\ (/\ conns[c].inflight.flags \cap CLONE_FLAG_SAME_RIGHTS # {}
                /\ last'.created # 0)
                 => CreatedRights
                      = IF /\ conns[c].kind = "dir"
                           /\ conns[c].inflight.flags \cap OPEN_FLAG_NODE_REFERENCE # {}
                        THEN {} ELSE Rights(conns[c].flags)
            /\ ExplicitRightsWithinParent(c)
       /\ (Starts(c) /\ conns'[c].state # "Refused") =>
            Rights(conns'[c].flags)
              = IF conns[c].flags \cap OPEN_FLAG_NODE_REFERENCE # {}
                THEN {} ELSE Rights(conns[c].flags)
       /\ (Polled(c) /\ ~Starts(c) /\ conns'[c].state # "Refused") =>
            conns'[c].flags = conns[c].flags
    ]_vars

\* A Clone with CLONE_FLAG_SAME_RIGHTS and WRITABLE on a read-only
\* directory connection made a read-only directory connection.
C24_Witness ==
  /\ last.conn # 0
  /\ conns[last.conn].kind = "dir"
  /\ conns[last.conn].flags = R_
  /\ last.req.kind = "Clone"
  /\ last.req.flags = CLONE_FLAG_SAME_RIGHTS \cup W_
  /\ last.created # 0
  /\ conns[last.created].kind = "dir"
  /\ conns[last.created].state = "Alive"
  /\ conns[last.created].flags = R_
(***************************************************************************)
(* Properties of encode_dirent                                             *)
(***************************************************************************)
RECURSIVE read_le(_)
\* The number a sequence of bytes stands for, lowest byte first.
read_le(bytes) ==
  IF bytes = <<>> THEN 0 ELSE Head(bytes) + 256 * read_le(Tail(bytes))

\* The bytes a call appended to the buffer.
Appended == SubSeq(cc.buf, Len(cc.prev) + 1, Len(cc.buf))

\* C31: a call of encode_dirent with a name of at most MAX_FILENAME bytes
\* either returns true, having appended exactly one record (the inode as 8
\* little-endian bytes, the length of the name, the type, the name) to a
\* buffer that is now at most max_bytes long, or returns false and leaves
\* the buffer as it was; the buffer is never longer than max_bytes.
C31_EncodeWithinBudget ==
  /\ Len(cc.buf) <= cc.max_bytes
  /\ (cc.ret # "none" /\ Len(cc.name) <= MAX_FILENAME) =>
       \/ /\ cc.ret = "true"
          /\ SubSeq(cc.buf, 1, Len(cc.prev)) = cc.prev
          /\ Len(Appended) = 10 + Len(cc.name)
          /\ read_le(SubSeq(Appended, 1, 8)) = cc.entry.inode
          /\ Appended[9] = Len(cc.name)
          /\ Appended[10] = cc.entry.type
          /\ SubSeq(Appended, 11, Len(Appended)) = cc.name
       \/ /\ cc.ret = "false"
          /\ cc.buf = cc.prev

\* A second record went into a page after a first one.
C31_Witness ==
  /\ cc.ret = "true"
  /\ Len(cc.prev) > 0
  /\ cc.entry.inode = 16909060
  /\ Len(cc.name) = 3
  /\ Len(cc.buf) = cc.max_bytes

\* C32: a call of encode_dirent with a name longer than MAX_FILENAME never
\* returns: it fails an assertion, whatever the buffer and the budget.  The
\* budget test of encode_dirent comes before its assertion, so a record
\* over the budget returns false instead.
C32_LongNameIsFatal ==
  (cc.ret # "none" /\ Len(cc.name) > MAX_FILENAME) => cc.ret = "panic"

(***************************************************************************)
(* Properties of a rename without a source entry                           *)
(***************************************************************************)
\* Thread t holds the mutex of its source directory and is about to look
\* the source name up.
LooksUpSource(t) ==
  \/ rn[t].pc = "in1" /\ rn[t].via \in {"rename_within", "rename_from"}
  \/ rn[t].pc = "in2" /\ rn[t].via = "rename_to"

\* The closure of rename_to has returned from a remove_entry_impl that
\* found no entry under the source name.
FoundNoSource(t) ==
  rn[t].pc = "back1" /\ rn[t].via = "rename_to" /\ rn[t].got = Ok(NoEntry)

C34_RemoteRoutesOnce ==
  cc.pc = "out" =>
    IF cc.flags \cap (OPEN_FLAG_NODE_REFERENCE \cup OPEN_FLAG_NO_REMOTE) = {}
    THEN /\ Len(cc.out.routed) = 1
         /\ cc.out.routed[1] = [scope |-> cc.scope, flags |-> cc.flags, mode |-> cc.mode,
                                path |-> cc.path, server_end |-> cc.server_end]
         /\ cc.out.node = <<>>
         /\ cc.out.onopen = "NONE"
    ELSE /\ cc.out.routed = <<>>
         /\ IF cc.path # <<>>
            THEN cc.out.onopen = "BAD_PATH" /\ cc.out.node = <<>>
            ELSE /\ cc.out.onopen = "NONE"
                 /\ Len(cc.out.node) = 1
                 /\ cc.out.node[1].flags \cap OPEN_FLAG_NO_REMOTE = {}
                 /\ cc.out.node[1].flags \ OPEN_FLAG_NODE_REFERENCE
                      = cc.flags \ (OPEN_FLAG_NODE_REFERENCE \cup OPEN_FLAG_NO_REMOTE)
                 /\ OPEN_FLAG_NODE_REFERENCE \subseteq cc.out.node[1].flags
                 /\ cc.out.node[1].scope = cc.scope
                 /\ cc.out.node[1].mode = cc.mode
                 /\ cc.out.node[1].server_end = cc.server_end

\* An open with NO_REMOTE and an empty path made a node connection.
C34_Witness ==
  /\ cc.pc = "out"
  /\ cc.flags = OPEN_FLAG_NO_REMOTE \cup OPEN_RIGHT_READABLE
  /\ cc.path = <<>>
  /\ Len(cc.out.node) = 1
  /\ cc.out.node[1].flags = OPEN_FLAG_NODE_REFERENCE \cup OPEN_RIGHT_READABLE

(***************************************************************************)
(* Properties of opening a file with OPEN_FLAG_TRUNCATE                    *)
(***************************************************************************)
\* C35: a file connection created with OPEN_FLAG_TRUNCATE has had its
\* backing file opened and then truncated before it serves a request: the
\* Open only spawns the connection's task, without a call to the file; the
\* task calls open at its first poll and truncate only once open has
\* answered OK, waiting for each as long as the file takes; it comes to
\* serve only once truncate has been called and has answered OK; and a
\* request is taken only by a connection that serves.  When the flags are
\* refused, or the open or the truncate fails, the status is sent on the
\* server end and the connection never serves.
C35_TruncateBeforeServing ==
  [][\A c \in DOMAIN conns :
       /\ (/\ Handles(c, {"Open"})
           /\ conns[c].inflight.path = "file"
           /\ last'.created # 0) =>
            /\ conns'[last'.created].state = "Spawned"
            /\ last'.calls = <<>>
       /\ Polled(c) =>
            /\ last'.conn = c /\ last'.req.kind = "Start"
            /\ conns[c].inflight = NoReq /\ conns'[c].inflight = NoReq
            /\ Count(last'.calls, "open") = IF Starts(c) /\ last'.calls # <<"close">>
                                            THEN 1 ELSE 0
            /\ Count(last'.calls, "truncate") <= 1
            /\ Count(last'.calls, "truncate") = 1 =>
                 /\ conns[c].state \in {"Spawned", "Opening"}
                 /\ conns'[c].state = "Refused" \/ conns'[c].flags \cap OPEN_FLAG_TRUNCATE # {}
                 /\ IF Starts(c) THEN last'.calls[1] = "open" /\ last'.calls[2] = "truncate"
                    ELSE last'.calls[1] = "truncate"
            /\ CASE conns'[c].state = "Opening" ->
                      Starts(c) /\ last'.calls = <<"open">> /\ last'.created = 0
                   [] conns'[c].state = "Truncating" ->
                      /\ conns'[c].flags \cap OPEN_FLAG_TRUNCATE # {}
                      /\ last'.calls[Len(last'.calls)] = "truncate"
                      /\ last'.created = 0
                   [] conns'[c].state = "Alive" ->
                      /\ last'.created = c
                      /\ last'.ret = "OK"
                      /\ Count(last'.calls, "close") = 0
                      /\ conns'[c].flags \cap OPEN_FLAG_TRUNCATE # {} =>
                           \/ conns[c].state = "Truncating"
                           \/ Count(last'.calls, "truncate") = 1
                   [] OTHER ->
                      /\ conns'[c].state = "Refused"
                      /\ last'.created = 0
                      /\ last'.ret # "OK" => last'.onopen = last'.ret
                      /\ last'.calls[Len(last'.calls)] = "close"
       /\ conns'[c].state = "Truncating" =>
            conns[c].state \in {"Spawned", "Opening", "Truncating"}
       /\ conns'[c].inflight # NoReq => conns'[c].state = "Alive"
       /\ conns[c].state = "Refused" =>
            /\ conns'[c].state = "Refused"
            /\ last'.conn = c => last' = last
    ]_vars

\* A connection made by an Open with OPEN_FLAG_TRUNCATE, after the calls
\* open and truncate, has served a Read.
C35_Witness ==
  \E c \in DOMAIN conns :
    /\ conns[c].kind = "file"
    /\ conns[c].parent # 0
    /\ conns[c].flags \cap OPEN_FLAG_TRUNCATE # {}
    /\ last.conn = c
    /\ last.req.kind = "Read"

(***************************************************************************)
(* Properties of a ReadDirents that fails                                  *)
(***************************************************************************)
\* C36: a ReadDirents whose directory read returns an error status answers
\* that status and leaves the connection's stored cursor as it was before
\* the request.  handle_read_dirents takes the cursor out of the connection
\* with replace(&mut self.seek, Default::default()) and stores one again
\* only on a Done, so a failed read leaves the default cursor behind.
C36_FailedReadKeepsCursor ==
  [][\A c \in DOMAIN conns :
       (Handles(c, {"ReadDirents"}) /\ last'.ret = "Err" /\ ~last'.err) =>
         /\ last'.resp \notin {"OK", "NONE"}
         /\ conns'[c].seek = conns[c].seek
    ]_vars

(***************************************************************************)
(* Properties of the seek at full width                                    *)
(***************************************************************************)
\* origin_base + offset of the latest Seek, as a number of any size.
SeekSum ==
  CASE cc.start = "Start"   -> cc.offset
    [] cc.start = "Current" -> AddI128(cc.before, cc.offset)
    [] cc.start = "End"     -> AddI128(cc.size.val, cc.offset)

\* C37: the stored seek never wraps: a Seek whose origin_base + offset is
\* not negative stores exactly that value.  handle_seek stores
\* new_seek as u64, the low 64 bits of the sum, so a sum of 2^64 or more
\* is stored reduced modulo 2^64: Seek(Start, 2^63 - 1), Seek(Current,
\* 2^63 - 1), Seek(Current, 2) ends at seek 0.
C37_SeekNeverWraps ==
  (/\ cc.status = "OK"
   /\ cc.start = "End" => cc.size.status = "OK"
   /\ ~(SeekSum.neg /\ SeekSum.mag # Wide(0)))
  => cc.seek = SeekSum.mag

(***************************************************************************)
(* Properties of the destination tokens                                    *)
(***************************************************************************)
\* The destination directory of the rename or link the latest handler ran.
Destination(l) == IF l.req.kind = "Rename" THEN l.args[3] ELSE l.args[1]

\* C38: a directory is the destination of a Link or a Rename only through a
\* token minted for it.  The registry starts without tokens; a token is
\* minted only by a GetToken that answers OK on a connection that holds
\* OPEN_RIGHT_WRITABLE, and for the directory of that connection; and a
\* Rename or Link that runs the rename or the link of a destination was
\* given a token minted for that directory before.
C38_DestinationOnlyByToken ==
  [][/\ tokens' # tokens =>
          \E c \in DOMAIN conns :
            /\ Handles(c, {"GetToken"})
            /\ Writable(conns[c])
            /\ last'.resp = "OK"
            /\ tokens' = tokens \cup {conns[c].node}
     /\ \A c \in DOMAIN conns :
          (/\ Handles(c, {"Rename", "Link"})
           /\ Count(last'.calls, "rename") + Count(last'.calls, "link") > 0)
          => /\ Destination(last') \in tokens
             /\ Destination(last') = conns[c].inflight.n
    ]_vars

\* A Rename on the connection to RootDir ran the rename into SubDir, the
\* only directory a token was minted for.
C38_Witness ==
  /\ tokens = {SubDir}
  /\ Handled({"Rename"})
  /\ conns[last.conn].node = RootDir
  /\ Count(last.calls, "rename") = 1
  /\ last.args[3] = SubDir
  /\ last.resp = "OK"

(***************************************************************************)
(* Properties of the requests that leave the seek alone                    *)
(***************************************************************************)
SeekKeepers ==
  {"ReadAt", "WriteAt", "Truncate", "Resize", "GetAttr", "SetAttr", "GetFlags",
   "SetFlags", "Sync", "Describe", "GetBuffer", "Clone",
   "ReadAtDeprecated", "WriteAtDeprecated", "SyncDeprecated",
   "GetFlagsDeprecatedUseNode", "SetFlagsDeprecatedUseNode", "GetBackingMemory"}

\* Read, Write and Seek, in the current protocol and in the older one.
SeekMovers == ReadKindsOf \cup WriteKindsOf \cup SeekKindsOf

\* C39: on a file connection only Read, Write and Seek change the seek:
\* the handler of a ReadAt, WriteAt, Truncate, Resize, GetAttr, SetAttr,
\* GetFlags, SetFlags, Sync, Describe, GetBuffer or Clone leaves the seek
\* of its connection as it was, whatever it answers, and every step that
\* changes the seek of a connection is the handler of a Read, a Write or a
\* Seek on it.  The requests of the older protocol count as the ones of the
\* current protocol they are the twins of.
C39_OnlyReadWriteSeekMoveSeek ==
  [][\A c \in DOMAIN conns :
       /\ FileHandles(c, SeekKeepers) => conns'[c].seek = conns[c].seek
       /\ (conns[c].kind = "file" /\ conns'[c].kind = "file"
             /\ conns'[c].seek # conns[c].seek)
          => FileHandles(c, SeekMovers)
    ]_vars

\* A WriteAt at offset 9 wrote its 13 bytes on a connection whose seek
\* stays at 5.
C39_Witness ==
  /\ last.conn # 0
  /\ conns[last.conn].kind = "file"
  /\ last.req.kind = "WriteAt"
  /\ last.resp = "OK"
  /\ last.args = <<9, 13>>
  /\ conns[last.conn].seek = 5

(***************************************************************************)
(* Properties of an Unlink by the number of components of its path         *)
(***************************************************************************)
\* The components of a path that is valid and names something below the
\* directory (none for a path that is not).
Components(path) ==
  IF path \in RootPaths \/ ~validate_and_split(path).ok THEN <<>>
  ELSE validate_and_split(path).val.names

\* C40: on a writable mutable directory connection, Unlink with a valid
\* path of exactly one component calls the directory's unlink exactly once,
\* with that component name, and returns its status verbatim; Unlink with a
\* valid path of more than one component is answered BAD_PATH without a
\* call of unlink; the connection stays Alive in both cases (a response
\* that cannot be sent is a transport error, which ends any connection).
C40_UnlinkOneComponent ==
  [][\A c \in DOMAIN conns :
       (Handles(c, {"Unlink"}) /\ Writable(conns[c])) =>
         LET names == Components(conns[c].inflight.path)
         IN  /\ Len(names) = 1 =>
                  /\ last'.calls = <<"unlink">>
                  /\ last'.args = <<names[1]>>
                  /\ last'.resp = last'.ret
                  /\ ~last'.err => conns'[c].state = "Alive"
             /\ Len(names) > 1 =>
                  /\ last'.calls = <<>>
                  /\ last'.resp = "BAD_PATH"
                  /\ ~last'.err => conns'[c].state = "Alive"
    ]_vars

\* An Unlink of "sub/" called unlink with "sub" and answered the
\* directory's failure as it is, on a connection that goes on.
C40_Witness ==
  /\ Handled({"Unlink"})
  /\ last.req.path = "sub/"
  /\ Writable(conns[last.conn])
  /\ last.calls = <<"unlink">>
  /\ last.args = <<"sub">>
  /\ last.resp = "IO"
  /\ ~last.err
  /\ conns[last.conn].state = "Alive"
====
